---- MODULE Spec2Model ----
(***************************************************************************)
(* Model of the query-knowledge-base edge function (hybrid retrieval with  *)
(* Reciprocal Rank Fusion, post-filter, broadening fallback, document      *)
(* grouping and relevance density).                                        *)
(*                                                                         *)
(* Scores are rationals.  An rrf_score q is held as the integer q * Scale, *)
(* where Scale is a common multiple of every denominator K + index that    *)
(* can occur, so sums and comparisons of scores are exact.  A relevance    *)
(* density is held as a pair [num, den] with den > 0.                      *)
(***************************************************************************)
EXTENDS Integers, Sequences, FiniteSets, TLC

\* ---------------------------------------------------------------- bounds

\* Longest list a primary retriever call returns.
MaxLen == 2

\* Longest list a fallback retriever call returns.
MaxFbLen == 1

\* ------------------------------------------------------------- constants

DEFAULT_RRF_K_VALUE == 10

MIN_RESULTS_THRESHOLD == 3

\* A rank that is null (ranks are 1-based), a raw score that is null.
NoRank == 0

NoScore == 0

\* A date filter bound or a metadata date that is absent.
NoDate == 0

Max(a, b) == IF a >= b THEN a ELSE b

MaxRank == Max(MaxLen, MaxFbLen)

RECURSIVE ScaleUpTo(_)
ScaleUpTo(n) == IF n = 0 THEN 1 ELSE (DEFAULT_RRF_K_VALUE + n - 1) * ScaleUpTo(n - 1)

\* The common denominator of all rrf scores of the model.
Scale == ScaleUpTo(MaxRank)

\* ---------------------------------------------------------------- corpus

\* The chunks the two search functions can return, with the columns of
\* their RETURNS TABLE.  similarity_score is in hundredths.  The
\* total_chunk_count column is what the row carries: 0 stands for a row
\* without the column (null), chunk 1 carries a count taken before chunk 2
\* of its document was stored.
ChunkIds == {1, 2, 3}

DocIds == {1, 2}

Corpus ==
  [c \in ChunkIds |->
     CASE c = 1 -> [document_id |-> 1, document_type |-> "report", chunk_order |-> 2,
                    date |-> 1, similarity_score |-> 90, total_chunk_count |-> 1]
       [] c = 2 -> [document_id |-> 1, document_type |-> "report", chunk_order |-> 1,
                    date |-> NoDate, similarity_score |-> 80, total_chunk_count |-> 4]
       [] c = 3 -> [document_id |-> 2, document_type |-> "memo", chunk_order |-> 1,
                    date |-> 3, similarity_score |-> 70, total_chunk_count |-> 0]]

\* A row of search_document_chunks_semantic / search_document_chunks_keyword.
Row(c) ==
  [id |-> c,
   document_id |-> Corpus[c].document_id,
   document_type |-> Corpus[c].document_type,
   chunk_order |-> Corpus[c].chunk_order,
   date |-> Corpus[c].date,
   similarity_score |-> Corpus[c].similarity_score,
   total_chunk_count |-> Corpus[c].total_chunk_count]

\* The lists of at most n distinct rows (a SELECT returns a chunk row once).
RowLists(n) ==
  UNION {{[i \in 1..k |-> Row(f[i])] :
            f \in {g \in [1..k -> ChunkIds] : \A i, j \in 1..k : i # j => g[i] # g[j]}}
         : k \in 0..n}

\* ----------------------------------------------------------------- fusion

Ids(hits) == {hits[i].id : i \in 1..Len(hits)}

IndexOfId(map, id) == CHOOSE i \in 1..Len(map) : map[i].id = id

\* Map.set: a new key is appended, an existing key keeps its position.
MapSet(map, entry) ==
  IF entry.id \in Ids(map)
    THEN [map EXCEPT ![IndexOfId(map, entry.id)] = entry]
    ELSE Append(map, entry)

\* 1 / (DEFAULT_RRF_K_VALUE + index), index 0-based, times Scale.
RrfScore(index) == Scale \div (DEFAULT_RRF_K_VALUE + index)

Tag(base, fallback) == IF fallback THEN base \o "_fallback" ELSE base

SemanticEntry(row, index, fallback) ==
  [id |-> row.id,
   document_id |-> row.document_id,
   document_type |-> row.document_type,
   chunk_order |-> row.chunk_order,
   date |-> row.date,
   total_chunk_count |-> row.total_chunk_count,
   rrf_score |-> RrfScore(index),
   semantic_rank |-> index + 1,
   keyword_rank |-> NoRank,
   keyword_match |-> FALSE,
   search_type |-> Tag("semantic", fallback),
   raw_semantic_score |-> row.similarity_score]

KeywordEntry(row, index, fallback) ==
  [id |-> row.id,
   document_id |-> row.document_id,
   document_type |-> row.document_type,
   chunk_order |-> row.chunk_order,
   date |-> row.date,
   total_chunk_count |-> row.total_chunk_count,
   rrf_score |-> RrfScore(index),
   semantic_rank |-> NoRank,
   keyword_rank |-> index + 1,
   keyword_match |-> TRUE,
   search_type |-> Tag("keyword", fallback),
   raw_semantic_score |-> NoScore]

\* The update of an entry that the semantic pass already stored.
HybridEntryOverwrite(existing, index, fallback) ==
  [existing EXCEPT !.rrf_score = RrfScore(index),
                   !.keyword_match = TRUE,
                   !.keyword_rank = index + 1,
                   !.search_type = Tag("hybrid", fallback)]

HybridEntry(existing, index, fallback) ==
  [existing EXCEPT !.rrf_score = @ + RrfScore(index),
                   !.keyword_match = TRUE,
                   !.keyword_rank = index + 1,
                   !.search_type = Tag("hybrid", fallback)]

\* semanticResults.forEach over the first n rows.
RECURSIVE ProcessSemantic(_, _, _)
ProcessSemantic(rows, n, fallback) ==
  IF n = 0 THEN <<>>
  ELSE MapSet(ProcessSemantic(rows, n - 1, fallback),
              SemanticEntry(rows[n], n - 1, fallback))

\* keywordResults.forEach over the first n rows, on the map the semantic
\* pass left.
RECURSIVE ProcessKeyword(_, _, _, _)
ProcessKeyword(map, rows, n, fallback) ==
  IF n = 0 THEN map
  ELSE LET m == ProcessKeyword(map, rows, n - 1, fallback)
           r == rows[n]
       IN  IF r.id \in Ids(m)
             THEN MapSet(m, HybridEntry(m[IndexOfId(m, r.id)], n - 1, fallback))
             ELSE MapSet(m, KeywordEntry(r, n - 1, fallback))

\* Array.prototype.sort((a, b) => b.rrf_score - a.rrf_score): stable.
InsertHit(sorted, h) ==
  LET k == Cardinality({i \in 1..Len(sorted) : sorted[i].rrf_score >= h.rrf_score})
  IN  SubSeq(sorted, 1, k) \o <<h>> \o SubSeq(sorted, k + 1, Len(sorted))

RECURSIVE SortHitsN(_, _)
SortHitsN(s, n) == IF n = 0 THEN <<>> ELSE InsertHit(SortHitsN(s, n - 1), s[n])

SortHits(s) == SortHitsN(s, Len(s))

\* The fused, sorted list of one pass.
Fuse(semantic, keyword, fallback) ==
  SortHits(ProcessKeyword(ProcessSemantic(semantic, Len(semantic), fallback),
                          keyword, Len(keyword), fallback))

\* ------------------------------------------------------------ post-filter

NoFilters == [present |-> FALSE, document_id |-> {}, document_type |-> {},
              start |-> NoDate, end |-> NoDate]

\* The filters objects a request carries in the model.
FilterCases ==
  {NoFilters,
   [NoFilters EXCEPT !.present = TRUE, !.document_id = {1}],
   [NoFilters EXCEPT !.present = TRUE, !.document_id = {2}],
   [NoFilters EXCEPT !.present = TRUE, !.document_type = {"memo"}],
   [NoFilters EXCEPT !.present = TRUE, !.start = 2],
   [NoFilters EXCEPT !.present = TRUE, !.end = 2],
   [NoFilters EXCEPT !.present = TRUE, !.document_id = {1}, !.start = 2]}

FilterByDocumentId(results, filters) ==
  IF filters.document_id # {}
    THEN SelectSeq(results, LAMBDA r : r.document_id \in filters.document_id)
    ELSE results

\* Rows of the search functions always have the document_type column.
FilterByDocumentType(results, filters) ==
  IF filters.document_type # {} /\ Len(results) > 0
    THEN SelectSeq(results, LAMBDA r : r.document_type \in filters.document_type)
    ELSE results

FilterByStart(results, filters) ==
  IF filters.start # NoDate
    THEN SelectSeq(results, LAMBDA r : IF r.date # NoDate THEN r.date >= filters.start ELSE TRUE)
    ELSE results

FilterByEnd(results, filters) ==
  IF filters.end # NoDate
    THEN SelectSeq(results, LAMBDA r : IF r.date # NoDate THEN r.date <= filters.end ELSE TRUE)
    ELSE results

\* The filters without the date range.
ApplyFiltersWithoutDates(results, filters) ==
  IF filters.present
    THEN FilterByDocumentType(FilterByDocumentId(results, filters), filters)
    ELSE results

ApplyFilters(results, filters) ==
  IF filters.present
    THEN FilterByEnd(FilterByStart(FilterByDocumentType(
           FilterByDocumentId(results, filters), filters), filters), filters)
    ELSE results

\* --------------------------------------------------------------- fallback

\* A per-request boolean of the body: absent, true or false.
Flags == {"unset", "true", "false"}

\* body.enable_fallback !== false, body.enable_density_calc !== false
NotFalse(flag) == flag # "false"

FallbackTriggerAtMost(enable_fallback, filteredResults, fallbackUsed) ==
  NotFalse(enable_fallback) /\ Len(filteredResults) <= MIN_RESULTS_THRESHOLD /\ ~fallbackUsed

FallbackTrigger(enable_fallback, filteredResults, fallbackUsed) ==
  NotFalse(enable_fallback) /\ Len(filteredResults) < MIN_RESULTS_THRESHOLD /\ ~fallbackUsed

FallbackSucceededFirstOnly(semantic, keyword) ==
  semantic.status = "ok"

\* Neither call threw and !broaderSearchResults[0].error && !broaderSearchResults[1].error
FallbackSucceeded(semantic, keyword) ==
  semantic.status = "ok" /\ keyword.status = "ok"

CombineResultsNoDedup(filteredResults, fallbackUsed, fallbackResults) ==
  IF fallbackUsed /\ Len(fallbackResults) > 0
    THEN filteredResults \o fallbackResults
    ELSE filteredResults

CombineResultsFallbackFirst(filteredResults, fallbackUsed, fallbackResults) ==
  IF fallbackUsed /\ Len(fallbackResults) > 0
    THEN fallbackResults \o
         SelectSeq(filteredResults, LAMBDA r : r.id \notin Ids(fallbackResults))
    ELSE filteredResults

CombineResultsResorted(filteredResults, fallbackUsed, fallbackResults) ==
  IF fallbackUsed /\ Len(fallbackResults) > 0
    THEN SortHits(filteredResults \o
                  SelectSeq(fallbackResults, LAMBDA r : r.id \notin Ids(filteredResults)))
    ELSE filteredResults

\* finalResults
CombineResults(filteredResults, fallbackUsed, fallbackResults) ==
  IF fallbackUsed /\ Len(fallbackResults) > 0
    THEN filteredResults \o
         SelectSeq(fallbackResults, LAMBDA r : r.id \notin Ids(filteredResults))
    ELSE filteredResults

\* --------------------------------------------------------------- grouping

ChunkObj(result) ==
  [id |-> result.id,
   order |-> result.chunk_order,
   date |-> result.date,
   similarity |-> result.rrf_score,
   raw_semantic_score |-> result.raw_semantic_score,
   keyword_rank |-> result.keyword_rank,
   total_chunk_count |-> result.total_chunk_count]

ZeroDensity == [num |-> 0, den |-> 1]

NewDocEntry(result) ==
  [document_id |-> result.document_id,
   document_type |-> result.document_type,
   chunks |-> <<>>,
   best_rrf_score |-> 0,
   best_raw_similarity |-> 0,
   relevance_density |-> ZeroDensity]

DocIndex(map, d) == CHOOSE i \in 1..Len(map) : map[i].document_id = d

\* One iteration of finalResults.forEach on the documentMap.
AddToDocument(map, result) ==
  LET m == IF \E i \in 1..Len(map) : map[i].document_id = result.document_id
             THEN map ELSE Append(map, NewDocEntry(result))
      i == DocIndex(m, result.document_id)
      e == m[i]
  IN  [m EXCEPT ![i] =
         [e EXCEPT !.chunks = Append(@, ChunkObj(result)),
                   !.best_rrf_score =
                      IF result.rrf_score > @ THEN result.rrf_score ELSE @,
                   !.best_raw_similarity =
                      IF result.raw_semantic_score # NoScore /\ result.raw_semantic_score > @
                        THEN result.raw_semantic_score ELSE @]]

RECURSIVE GroupN(_, _)
GroupN(results, n) ==
  IF n = 0 THEN <<>> ELSE AddToDocument(GroupN(results, n - 1), results[n])

TotalChunksZeroWhenMissing(docEntry) ==
  docEntry.chunks[1].total_chunk_count

\* docEntry.chunks[0]?.total_chunk_count || matchedChunks
TotalChunksInDocument(docEntry) ==
  IF docEntry.chunks[1].total_chunk_count # 0
    THEN docEntry.chunks[1].total_chunk_count
    ELSE Len(docEntry.chunks)

\* relevance_density of one document entry
RelevanceDensity(docEntry, enable_density_calc) ==
  IF NotFalse(enable_density_calc)
    THEN IF Len(docEntry.chunks) = 0 THEN ZeroDensity
         ELSE IF TotalChunksInDocument(docEntry) > 0
                THEN [num |-> Len(docEntry.chunks), den |-> TotalChunksInDocument(docEntry)]
                ELSE ZeroDensity
    ELSE ZeroDensity

WithDensity(map, enable_density_calc) ==
  [i \in 1..Len(map) |->
     [map[i] EXCEPT !.relevance_density = RelevanceDensity(map[i], enable_density_calc)]]

InsertDoc(sorted, d) ==
  LET k == Cardinality({i \in 1..Len(sorted) : sorted[i].best_rrf_score >= d.best_rrf_score})
  IN  SubSeq(sorted, 1, k) \o <<d>> \o SubSeq(sorted, k + 1, Len(sorted))

RECURSIVE SortDocsN(_, _)
SortDocsN(s, n) == IF n = 0 THEN <<>> ELSE InsertDoc(SortDocsN(s, n - 1), s[n])

SortDocsUnsorted(s) == s

\* Array.prototype.sort((a, b) => b.best_rrf_score - a.best_rrf_score): stable.
SortDocs(s) == SortDocsN(s, Len(s))

\* groupedResults
GroupResults(finalResults, enable_density_calc) ==
  SortDocs(WithDensity(GroupN(finalResults, Len(finalResults)), enable_density_calc))

\* ---------------------------------------------------------------- request

DEFAULT_SIMILARITY_THRESHOLD == 60

DEFAULT_MAX_CHUNKS == 50

\* A numeric field of the body that is absent (or 0, which || treats alike).
Absent == 0

Methods == {"OPTIONS", "GET", "POST"}

\* The Authorization header: none, the service or anon key, a JWT that
\* auth.getUser accepts, a JWT it rejects.
AuthCases == {"missing", "internal", "user", "invalid"}

QueryCases == {"missing", "blank", "text"}

LimitVals == {Absent, 1}

MinSimilarityVals == {Absent, 40, 20}

DefaultBody ==
  [json |-> "object", user_query |-> "text", filters |-> NoFilters, limit |-> Absent,
   min_similarity |-> Absent, include_public_only |-> FALSE,
   enable_fallback |-> "unset", enable_density_calc |-> "unset"]

\* Bodies that vary the filters and the fallback switch.
FilterBodies ==
  {[DefaultBody EXCEPT !.filters = f, !.enable_fallback = ef] :
     f \in FilterCases, ef \in Flags}

\* Bodies that vary the density switch.
DensityBodies ==
  {[DefaultBody EXCEPT !.filters = f, !.enable_density_calc = ed] :
     f \in {NoFilters, [NoFilters EXCEPT !.present = TRUE, !.document_id = {1}]},
     ed \in Flags}

\* Bodies that vary what is passed on to the search functions.
ParameterBodies ==
  {[DefaultBody EXCEPT !.limit = l, !.min_similarity = t] :
     l \in LimitVals, t \in MinSimilarityVals}
    \cup {[DefaultBody EXCEPT !.include_public_only = TRUE]}

\* The accepted requests of the model: the caller and the body.
Requests ==
  {[auth |-> "user", body |-> b] : b \in FilterBodies \cup DensityBodies \cup ParameterBodies}
    \cup {[auth |-> "internal", body |-> b] :
            b \in {DefaultBody, [DefaultBody EXCEPT !.include_public_only = TRUE]}}

\* user?.id || null, with 0 for null
UserId(auth) == IF auth = "user" THEN 1 ELSE 0

\* body.limit || DEFAULT_MAX_CHUNKS
Limit(body) == IF body.limit # Absent THEN body.limit ELSE DEFAULT_MAX_CHUNKS

\* body.min_similarity || DEFAULT_SIMILARITY_THRESHOLD, in hundredths
MinSimilarity(body) ==
  IF body.min_similarity # Absent THEN body.min_similarity ELSE DEFAULT_SIMILARITY_THRESHOLD

\* minSimilarity - 0.2 without the floor of 0.3
FallbackThresholdUnclamped(minSimilarity) == minSimilarity - 20

\* Math.max(0.3, minSimilarity - 0.2), in hundredths
FallbackThreshold(minSimilarity) == Max(30, minSimilarity - 20)

Min(a, b) == IF a <= b THEN a ELSE b

\* ----------------------------------------------------------------- state

VARIABLES
  pc,               \* where the handler is: start, embed, search, fallback, done
  method,           \* the HTTP method of the request
  auth,             \* the Authorization case of the request
  body,             \* the parsed request body
  calls,            \* the embedding and rpc calls issued so far, in order
  semanticResult,   \* outcome of the primary semantic call
  keywordResult,    \* outcome of the primary keyword call
  searchResults,    \* the fused primary list
  filteredResults,  \* searchResults after the filters
  broaderSemantic,  \* outcome of the fallback semantic call
  broaderKeyword,   \* outcome of the fallback keyword call
  fallbackUsed,
  fallbackResults,
  finalResults,
  response,         \* the Response returned, status 0 while there is none
  insightsPc,       \* generate-rag-insights: idle, or tasks while LLM calls run
  request,          \* the insights request being served
  bodyDocuments,    \* its documents array, which the tasks share
  cacheKey,         \* its cache key
  backendFailed,    \* whether the backend has failed a cache or history operation
  summariesTask,    \* the three promises of insightPromises
  directTask,
  relatedTask,
  insight_cache,    \* the rows of table insight_cache
  search_history,   \* the rows of table search_history
  now,              \* the clock, in hours
  answers,          \* the responses sent by generate-rag-insights, in order
  schema,           \* the database: none before the migration, then which
                    \* documents table the search functions read
  documentsTable,   \* the rows of table documents
  documentChunks,   \* the rows of table document_chunks
  rpcResult,        \* the last search rpc of the handler and what it returned
  completions,      \* the calls of getOpenAIChatCompletion of one request
  elapsed,          \* seconds since the request started them
  responded         \* whether the request has sent its response

vars == <<pc, method, auth, body, calls, semanticResult, keywordResult, searchResults,
          filteredResults, broaderSemantic, broaderKeyword, fallbackUsed,
          fallbackResults, finalResults, response>>

ivars == <<insightsPc, request, bodyDocuments, cacheKey, backendFailed, summariesTask,
           directTask, relatedTask, insight_cache, search_history, now, answers>>

svars == <<schema, documentsTable, documentChunks, rpcResult>>

lvars == <<completions, elapsed, responded>>

NotCalled == [status |-> "none", data |-> <<>>]

Pending == [status |-> "pending", data |-> <<>>]

NoBody == [json |-> "object", user_query |-> "missing", filters |-> NoFilters, limit |-> Absent,
           min_similarity |-> Absent, include_public_only |-> FALSE,
           enable_fallback |-> "unset", enable_density_calc |-> "unset"]

NoFallbackInfo == [used |-> FALSE, precision_results |-> 0, fallback_results |-> 0,
                   total_combined |-> 0]

NoResponse == [status |-> 0, error |-> "", results |-> <<>>, total_documents |-> 0,
               total_chunks |-> 0, fallback_info |-> NoFallbackInfo]

ErrorResponse(status, error) == [NoResponse EXCEPT !.status = status, !.error = error]

Init ==
  /\ pc = "start"
  /\ method = "POST"
  /\ auth = "missing"
  /\ body = NoBody
  /\ calls = <<>>
  /\ semanticResult = NotCalled
  /\ keywordResult = NotCalled
  /\ searchResults = <<>>
  /\ filteredResults = <<>>
  /\ broaderSemantic = NotCalled
  /\ broaderKeyword = NotCalled
  /\ fallbackUsed = FALSE
  /\ fallbackResults = <<>>
  /\ finalResults = <<>>
  /\ response = NoResponse

\* -------------------------------------------------------------- responses

FallbackInfo(used, filtered, fallback, final) ==
  IF used
    THEN [used |-> TRUE, precision_results |-> Len(filtered),
          fallback_results |-> Len(fallback), total_combined |-> Len(final)]
    ELSE NoFallbackInfo

\* The 200 response built from finalResults.
SuccessResponse(b, filtered, used, fallback, final) ==
  LET groupedResults == GroupResults(final, b.enable_density_calc)
  IN  [status |-> 200, error |-> "", results |-> groupedResults,
       total_documents |-> Len(groupedResults),
       total_chunks |-> Len(final),
       fallback_info |-> FallbackInfo(used, filtered, fallback, final)]

SemanticCall(pass, b, a, threshold, max_results) ==
  [fn |-> "search_document_chunks_semantic", pass |-> pass,
   similarity_threshold |-> threshold, max_results |-> max_results,
   p_user_id |-> UserId(a), include_public_only |-> b.include_public_only]

KeywordCall(pass, b, a, max_results) ==
  [fn |-> "search_document_chunks_keyword", pass |-> pass,
   similarity_threshold |-> Absent, max_results |-> max_results,
   p_user_id |-> UserId(a), include_public_only |-> b.include_public_only]

EmbedCall ==
  [fn |-> "embed", pass |-> "primary", similarity_threshold |-> Absent,
   max_results |-> Absent, p_user_id |-> 0, include_public_only |-> FALSE]

\* ---------------------------------------------------------------- actions

\* The request is answered before the body is read: OPTIONS, a method
\* other than POST, no Authorization header, a rejected JWT.
RejectEarly ==
  /\ pc = "start"
  /\ \E m \in Methods, a \in AuthCases :
       /\ m # "POST" \/ a \in {"missing", "invalid"}
       /\ method' = m
       /\ auth' = a
       /\ response' = IF m = "OPTIONS" THEN ErrorResponse(200, "")
                      ELSE IF m # "POST" THEN ErrorResponse(405, "Method not allowed")
                      ELSE IF a = "missing"
                             THEN ErrorResponse(401, "Missing authorization header")
                             ELSE ErrorResponse(401, "Invalid or expired token")
  /\ pc' = "done"
  /\ UNCHANGED <<body, calls, semanticResult, keywordResult, searchResults,
                 filteredResults, broaderSemantic, broaderKeyword, fallbackUsed,
                 fallbackResults, finalResults>>

\* An authorized POST whose user_query is missing or blank: 400.
RejectQuery ==
  /\ pc = "start"
  /\ \E a \in {"internal", "user"}, q \in {"missing", "blank"} :
       /\ auth' = a
       /\ body' = [NoBody EXCEPT !.user_query = q]
  /\ response' = ErrorResponse(400, "user_query is required")
  /\ pc' = "done"
  /\ UNCHANGED <<method, calls, semanticResult, keywordResult, searchResults,
                 filteredResults, broaderSemantic, broaderKeyword, fallbackUsed,
                 fallbackResults, finalResults>>

\* An authorized POST whose body is no JSON text, or is the JSON value null:
\* req.json() throws on the first, reading body.user_query throws on the
\* second, and the outer catch answers 500.
BodyUnparsable ==
  /\ pc = "start"
  /\ \E a \in {"internal", "user"}, j \in {"unparsable", "null"} :
       /\ auth' = a
       /\ body' = [NoBody EXCEPT !.json = j]
  /\ response' = ErrorResponse(500, "Internal server error")
  /\ pc' = "done"
  /\ UNCHANGED <<method, calls, semanticResult, keywordResult, searchResults,
                 filteredResults, broaderSemantic, broaderKeyword, fallbackUsed,
                 fallbackResults, finalResults>>

\* An authorized POST with a query: the embedding call is issued.
Accept ==
  /\ pc = "start"
  /\ \E r \in Requests :
       /\ auth' = r.auth
       /\ body' = r.body
  /\ calls' = <<EmbedCall>>
  /\ pc' = "embed"
  /\ UNCHANGED <<method, semanticResult, keywordResult, searchResults,
                 filteredResults, broaderSemantic, broaderKeyword, fallbackUsed,
                 fallbackResults, finalResults, response>>

\* The embedding error answered only after the two searches were started.
EmbedFailsAfterSearchStarted ==
  /\ pc = "embed"
  /\ calls' = calls \o <<SemanticCall("primary", body, auth, MinSimilarity(body), Limit(body)),
                         KeywordCall("primary", body, auth, Limit(body))>>
  /\ response' = ErrorResponse(500, "Failed to generate query embedding")
  /\ pc' = "done"
  /\ UNCHANGED <<method, auth, body, semanticResult, keywordResult, searchResults,
                 filteredResults, broaderSemantic, broaderKeyword, fallbackUsed,
                 fallbackResults, finalResults>>

\* model.run throws or returns something that is no array: 500.
EmbedFails ==
  /\ pc = "embed"
  /\ response' = ErrorResponse(500, "Failed to generate query embedding")
  /\ pc' = "done"
  /\ UNCHANGED <<method, auth, body, calls, semanticResult, keywordResult, searchResults,
                 filteredResults, broaderSemantic, broaderKeyword, fallbackUsed,
                 fallbackResults, finalResults>>

\* The embedding arrives; both primary searches are started (Promise.all).
EmbedReturns ==
  /\ pc = "embed"
  /\ calls' = calls \o <<SemanticCall("primary", body, auth, MinSimilarity(body), Limit(body)),
                         KeywordCall("primary", body, auth, Limit(body))>>
  /\ semanticResult' = Pending
  /\ keywordResult' = Pending
  /\ pc' = "search"
  /\ UNCHANGED <<method, auth, body, searchResults, filteredResults, broaderSemantic,
                 broaderKeyword, fallbackUsed, fallbackResults, finalResults, response>>

\* What an rpc call can come back with: rows, {error}, or a rejection.
Outcomes(maxLen, max_results) ==
  {[status |-> "ok", data |-> rows] : rows \in RowLists(Min(maxLen, max_results))}
    \cup {[status |-> "error", data |-> <<>>], [status |-> "throw", data |-> <<>>]}

SemanticReturns ==
  /\ pc = "search"
  /\ semanticResult.status = "pending"
  /\ semanticResult' \in Outcomes(MaxLen, Limit(body))
  /\ UNCHANGED <<pc, method, auth, body, calls, keywordResult, searchResults, filteredResults,
                 broaderSemantic, broaderKeyword, fallbackUsed, fallbackResults,
                 finalResults, response>>

KeywordReturns ==
  /\ pc = "search"
  /\ keywordResult.status = "pending"
  /\ keywordResult' \in Outcomes(MaxLen, Limit(body))
  /\ UNCHANGED <<pc, method, auth, body, calls, semanticResult, searchResults, filteredResults,
                 broaderSemantic, broaderKeyword, fallbackUsed, fallbackResults,
                 finalResults, response>>

\* Promise.race in place of Promise.all: settled as soon as one call is back.
SettledWhenFirstReturns(x, y) ==
  \/ x.status \in {"ok", "error", "throw"}
  \/ y.status \in {"ok", "error", "throw"}

\* Promise.all settles: it rejects as soon as one call rejects, and
\* resolves when both have resolved.
Settled(x, y) ==
  \/ x.status = "throw"
  \/ y.status = "throw"
  \/ x.status \in {"ok", "error"} /\ y.status \in {"ok", "error"}

\* A primary call rejected, or returned an error: 500.
SearchFails ==
  /\ pc = "search"
  /\ Settled(semanticResult, keywordResult)
  /\ \/ semanticResult.status \in {"throw", "error"}
     \/ keywordResult.status \in {"throw", "error"}
  /\ response' =
       IF "throw" \in {semanticResult.status, keywordResult.status}
         THEN ErrorResponse(500, "Internal server error")
         ELSE IF semanticResult.status = "error"
                THEN ErrorResponse(500, "Semantic search failed")
                ELSE ErrorResponse(500, "Keyword search failed")
  /\ pc' = "done"
  /\ UNCHANGED <<method, auth, body, calls, semanticResult, keywordResult, searchResults,
                 filteredResults, broaderSemantic, broaderKeyword, fallbackUsed,
                 fallbackResults, finalResults>>

\* Both primary calls returned rows, the filtered list is long enough or
\* fallback is disabled: group and answer.
AnswerPrimary ==
  /\ pc = "search"
  /\ semanticResult.status = "ok" /\ keywordResult.status = "ok"
  /\ LET fused == Fuse(semanticResult.data, keywordResult.data, FALSE)
         filtered == ApplyFilters(fused, body.filters)
         final == CombineResults(filtered, FALSE, <<>>)
     IN  /\ ~FallbackTrigger(body.enable_fallback, filtered, fallbackUsed)
         /\ searchResults' = fused
         /\ filteredResults' = filtered
         /\ finalResults' = final
         /\ response' = SuccessResponse(body, filtered, FALSE, <<>>, final)
  /\ pc' = "done"
  /\ UNCHANGED <<method, auth, body, calls, semanticResult, keywordResult, broaderSemantic,
                 broaderKeyword, fallbackUsed, fallbackResults>>

\* Both primary calls returned rows and the filtered list is too short:
\* the two broader searches are started.
StartFallback ==
  /\ pc = "search"
  /\ semanticResult.status = "ok" /\ keywordResult.status = "ok"
  /\ LET fused == Fuse(semanticResult.data, keywordResult.data, FALSE)
         filtered == ApplyFilters(fused, body.filters)
     IN  /\ FallbackTrigger(body.enable_fallback, filtered, fallbackUsed)
         /\ searchResults' = fused
         /\ filteredResults' = filtered
  /\ calls' = calls \o
       <<SemanticCall("fallback", body, auth, FallbackThreshold(MinSimilarity(body)),
                      Limit(body) * 2),
         KeywordCall("fallback", body, auth, Limit(body) * 2)>>
  /\ broaderSemantic' = Pending
  /\ broaderKeyword' = Pending
  /\ pc' = "fallback"
  /\ UNCHANGED <<method, auth, body, semanticResult, keywordResult, fallbackUsed,
                 fallbackResults, finalResults, response>>

BroaderSemanticReturns ==
  /\ pc = "fallback"
  /\ broaderSemantic.status = "pending"
  /\ broaderSemantic' \in Outcomes(MaxFbLen, Limit(body) * 2)
  /\ UNCHANGED <<pc, method, auth, body, calls, semanticResult, keywordResult, searchResults,
                 filteredResults, broaderKeyword, fallbackUsed, fallbackResults,
                 finalResults, response>>

BroaderKeywordReturns ==
  /\ pc = "fallback"
  /\ broaderKeyword.status = "pending"
  /\ broaderKeyword' \in Outcomes(MaxFbLen, Limit(body) * 2)
  /\ UNCHANGED <<pc, method, auth, body, calls, semanticResult, keywordResult, searchResults,
                 filteredResults, broaderSemantic, fallbackUsed, fallbackResults,
                 finalResults, response>>

\* The broader Promise.all settled: fuse the fallback lists if both calls
\* succeeded, combine, group and answer.
AnswerAfterFallback ==
  /\ pc = "fallback"
  /\ Settled(broaderSemantic, broaderKeyword)
  /\ LET used == FallbackSucceeded(broaderSemantic, broaderKeyword)
         fb == IF used THEN Fuse(broaderSemantic.data, broaderKeyword.data, TRUE)
               ELSE <<>>
         final == CombineResults(filteredResults, used, fb)
     IN  /\ fallbackUsed' = used
         /\ fallbackResults' = fb
         /\ finalResults' = final
         /\ response' = SuccessResponse(body, filteredResults, used, fb, final)
  /\ pc' = "done"
  /\ UNCHANGED <<method, auth, body, calls, semanticResult, keywordResult, searchResults,
                 filteredResults, broaderSemantic, broaderKeyword>>

Next ==
  \/ RejectEarly /\ UNCHANGED <<ivars, svars, lvars>>
  \/ RejectQuery /\ UNCHANGED <<ivars, svars, lvars>>
  \/ BodyUnparsable /\ UNCHANGED <<ivars, svars, lvars>>
  \/ Accept /\ UNCHANGED <<ivars, svars, lvars>>
  \/ EmbedFails /\ UNCHANGED <<ivars, svars, lvars>>
  \/ EmbedReturns /\ UNCHANGED <<ivars, svars, lvars>>
  \/ SemanticReturns /\ UNCHANGED <<ivars, svars, lvars>>
  \/ KeywordReturns /\ UNCHANGED <<ivars, svars, lvars>>
  \/ SearchFails /\ UNCHANGED <<ivars, svars, lvars>>
  \/ AnswerPrimary /\ UNCHANGED <<ivars, svars, lvars>>
  \/ StartFallback /\ UNCHANGED <<ivars, svars, lvars>>
  \/ BroaderSemanticReturns /\ UNCHANGED <<ivars, svars, lvars>>
  \/ BroaderKeywordReturns /\ UNCHANGED <<ivars, svars, lvars>>
  \/ AnswerAfterFallback /\ UNCHANGED <<ivars, svars, lvars>>

\* ----------------------------------------------------------------- claims

K == DEFAULT_RRF_K_VALUE

\* The 0-based rank of chunk id in a retriever list that holds it.
RankIn(rows, id) == (CHOOSE i \in 1..Len(rows) : rows[i].id = id) - 1

\* Every chunk of the two lists is in the fused list with the exact score
\* 1/(K+i) + 1/(K+j), or 1/(K+i) when it is in one list only.
RrfExact(fused, semantic, keyword) ==
  /\ Ids(fused) = Ids(semantic) \cup Ids(keyword)
  /\ \A n \in 1..Len(fused) :
       LET h == fused[n]
           inS == h.id \in Ids(semantic)
           inK == h.id \in Ids(keyword)
           i == RankIn(semantic, h.id)
           j == RankIn(keyword, h.id)
       IN  /\ inS /\ inK => h.rrf_score * (K + i) * (K + j) = Scale * ((K + i) + (K + j))
           /\ inS /\ ~inK => h.rrf_score * (K + i) = Scale
           /\ ~inS /\ inK => h.rrf_score * (K + j) = Scale

PrimaryFused == pc \in {"fallback", "done"} /\ semanticResult.status = "ok"
                  /\ keywordResult.status = "ok"

ResponseChunkIds(r) ==
  [d \in 1..Len(r.results) |->
     [c \in 1..Len(r.results[d].chunks) |-> r.results[d].chunks[c].id]]

\* C2: in a success response no chunk id occurs twice over all chunks of
\* all DocumentResults.
C2_ChunkIdsUnique ==
  response.status = 200 =>
    LET ids == ResponseChunkIds(response)
    IN  \A d1, d2 \in 1..Len(ids) :
          \A c1 \in 1..Len(ids[d1]), c2 \in 1..Len(ids[d2]) :
            ids[d1][c1] = ids[d2][c2] => d1 = d2 /\ c1 = c2

\* A response after a fallback pass that returned a chunk the primary pass
\* had returned, and one it had not.
C2_Witness ==
  /\ response.status = 200
  /\ fallbackUsed
  /\ \E n \in 1..Len(fallbackResults) : fallbackResults[n].id \in Ids(filteredResults)
  /\ \E n \in 1..Len(fallbackResults) : fallbackResults[n].id \notin Ids(filteredResults)

\* Position of the first hit of document d in the final hit list.
FirstHitOf(d) == CHOOSE n \in 1..Len(finalResults) :
                   /\ finalResults[n].document_id = d
                   /\ \A m \in 1..(n - 1) : finalResults[m].document_id # d

\* C3 as stated: documents by descending best_rrf_score, ties by descending
\* best_raw_similarity, then by document_id.
C3_Original ==
  response.status = 200 =>
    \A n \in 1..(Len(response.results) - 1) :
      LET a == response.results[n]
          b == response.results[n + 1]
      IN  \/ a.best_rrf_score > b.best_rrf_score
          \/ /\ a.best_rrf_score = b.best_rrf_score
             /\ \/ a.best_raw_similarity > b.best_raw_similarity
                \/ /\ a.best_raw_similarity = b.best_raw_similarity
                   /\ a.document_id <= b.document_id

\* C3 (amended): documents are ordered by descending best_rrf_score, and
\* documents with equal best_rrf_score are in the order in which their first
\* hit occurs in the final hit list.
C3_DocumentsByBestRrfStable ==
  response.status = 200 =>
    \A n, m \in 1..Len(response.results) :
      n < m =>
        LET a == response.results[n]
            b == response.results[m]
        IN  /\ a.best_rrf_score >= b.best_rrf_score
            /\ a.best_rrf_score = b.best_rrf_score =>
                 FirstHitOf(a.document_id) < FirstHitOf(b.document_id)

\* A response with two documents of equal best_rrf_score.
C3_Witness ==
  /\ response.status = 200
  /\ Len(response.results) = 2
  /\ response.results[1].best_rrf_score = response.results[2].best_rrf_score

IsPrimaryChunk(c) == c.id \in Ids(filteredResults)

\* C4 as stated: chunks of a document by descending rrf_score, ties by
\* ascending chunk order.
C4_Original ==
  response.status = 200 =>
    \A d \in 1..Len(response.results) :
      LET chunks == response.results[d].chunks
      IN  \A n \in 1..(Len(chunks) - 1) :
            \/ chunks[n].similarity > chunks[n + 1].similarity
            \/ /\ chunks[n].similarity = chunks[n + 1].similarity
               /\ chunks[n].order <= chunks[n + 1].order

\* C4 (amended): within a DocumentResult the chunks of the primary pass come
\* first, in non-increasing rrf_score order, followed by the appended
\* fallback chunks, in non-increasing rrf_score order among themselves.
C4_ChunksPrimaryThenFallback ==
  response.status = 200 =>
    \A d \in 1..Len(response.results) :
      LET chunks == response.results[d].chunks
      IN  \A n, m \in 1..Len(chunks) :
            n < m =>
              /\ ~(~IsPrimaryChunk(chunks[n]) /\ IsPrimaryChunk(chunks[m]))
              /\ IsPrimaryChunk(chunks[n]) = IsPrimaryChunk(chunks[m]) =>
                   chunks[n].similarity >= chunks[m].similarity

\* A document whose primary chunk is followed by a fallback chunk of higher
\* rrf_score.
C4_Witness ==
  /\ response.status = 200
  /\ \E d \in 1..Len(response.results) :
       LET chunks == response.results[d].chunks
       IN  /\ Len(chunks) = 2
           /\ IsPrimaryChunk(chunks[1]) /\ ~IsPrimaryChunk(chunks[2])
           /\ chunks[1].similarity < chunks[2].similarity

\* C5: every relevance_density of a success response is in [0, 1], and is 0
\* when the request has enable_density_calc = false.
C5_DensityInUnitInterval ==
  response.status = 200 =>
    \A d \in 1..Len(response.results) :
      LET rd == response.results[d].relevance_density
      IN  /\ 0 <= rd.num /\ rd.num <= rd.den
          /\ body.enable_density_calc = "false" => rd.num = 0

NoTotals(doc) == \A c \in 1..Len(doc.chunks) : doc.chunks[c].total_chunk_count = 0

FallbackCalls == SelectSeq(calls, LAMBDA c : c.pass = "fallback")

\* C7: the fallback pair of calls is issued exactly when fewer than 3 hits
\* are left after filtering and enable_fallback is not false; it is one
\* semantic and one keyword call, issued at most once.
C7_FallbackIssuedIffSparse ==
  /\ Len(FallbackCalls) \in {0, 2}
  /\ Len(FallbackCalls) = 2 =>
       /\ FallbackCalls[1].fn = "search_document_chunks_semantic"
       /\ FallbackCalls[2].fn = "search_document_chunks_keyword"
       /\ Len(filteredResults) < 3
       /\ body.enable_fallback # "false"
  /\ PrimaryFused /\ Len(filteredResults) < 3 /\ body.enable_fallback # "false" =>
       Len(FallbackCalls) = 2

\* A request that issued the fallback calls with two hits left, and is done.
C7_Witness ==
  /\ pc = "done"
  /\ Len(FallbackCalls) = 2
  /\ Len(filteredResults) = 2

\* C8: after a successful fallback pass the final hit list is the primary
\* filtered list, unchanged, followed by the fallback hits whose chunk id is
\* not in the primary list, in fallback order; a chunk in both is the
\* primary entry.
C8_FinalIsPrimaryThenNewFallback ==
  pc = "done" /\ fallbackUsed =>
    LET p == Len(filteredResults)
        tail == SubSeq(finalResults, p + 1, Len(finalResults))
    IN  /\ Len(finalResults) >= p
        /\ SubSeq(finalResults, 1, p) = filteredResults
        /\ \A n \in 1..p : \E m \in 1..Len(searchResults) :
             finalResults[n] = searchResults[m]
        /\ \A n \in 1..Len(tail) :
             /\ tail[n].id \notin Ids(filteredResults)
             /\ \E m \in 1..Len(fallbackResults) : tail[n] = fallbackResults[m]
        /\ Ids(tail) = Ids(fallbackResults) \ Ids(filteredResults)
        /\ Len(tail) = Cardinality(Ids(tail))
        /\ \A n, m \in 1..Len(tail) :
             n < m => \E a, b \in 1..Len(fallbackResults) :
                        a < b /\ fallbackResults[a] = tail[n] /\ fallbackResults[b] = tail[m]
        /\ response.total_chunks = Len(finalResults)

\* A fallback pass that returned a chunk of the primary list and a new one.
C8_Witness ==
  /\ pc = "done" /\ fallbackUsed
  /\ Len(filteredResults) >= 1
  /\ Len(finalResults) > Len(filteredResults)
  /\ \E n \in 1..Len(fallbackResults) : fallbackResults[n].id \in Ids(filteredResults)

FallbackCallFailed ==
  \/ broaderSemantic.status \in {"error", "throw"}
  \/ broaderKeyword.status \in {"error", "throw"}

\* C9: when a fallback call returns an error or throws, the request is still
\* answered with success, the results are the grouping of the primary
\* filtered hits, and fallback_info.used is false.
C9_FallbackErrorKeepsPrimary ==
  pc = "done" /\ FallbackCallFailed =>
    /\ response.status = 200
    /\ response.results = GroupResults(filteredResults, body.enable_density_calc)
    /\ response.total_chunks = Len(filteredResults)
    /\ response.fallback_info.used = FALSE

\* The fallback semantic call returned rows, the keyword call an error, and
\* the primary pass had left a hit.
C9_Witness ==
  /\ pc = "done"
  /\ broaderSemantic.status = "ok" /\ Len(broaderSemantic.data) > 0
  /\ broaderKeyword.status = "error"
  /\ Len(filteredResults) > 0

ExactlyOnePrimaryFailed ==
  \/ semanticResult.status \in {"error", "throw"} /\ keywordResult.status = "ok"
  \/ semanticResult.status = "ok" /\ keywordResult.status \in {"error", "throw"}

\* C10: when exactly one primary retriever fails the request still succeeds.
C10_SingleFailureStillSucceeds ==
  pc = "done" /\ ExactlyOnePrimaryFailed => response.status = 200

\* The calls issued so far, as <<function, pass>> pairs.
CallKinds == [n \in 1..Len(calls) |-> <<calls[n].fn, calls[n].pass>>]

\* The calls of a request that runs every stage, in stage order.
StageOrder ==
  << <<"embed", "primary">>,
     <<"search_document_chunks_semantic", "primary">>,
     <<"search_document_chunks_keyword", "primary">>,
     <<"search_document_chunks_semantic", "fallback">>,
     <<"search_document_chunks_keyword", "fallback">> >>

IsPrefix(s, t) == Len(s) <= Len(t) /\ \A n \in 1..Len(s) : s[n] = t[n]

EmbeddingFailed == response.error = "Failed to generate query embedding"

\* The request passed validation: its embedding call was issued.
Accepted == calls # <<>>

\* C11: an accepted request runs EMBED, RETRIEVE_PARALLEL, FUSE, FILTER,
\* optional FALLBACK, GROUP in that order: its calls are a prefix of the
\* stage order, the fused list is filtered, the filtered list (with the
\* fallback hits when the fallback pass ran) is what is grouped.  A request
\* waits only for a call that is still pending, it is answered exactly when
\* it is done, and an answered request takes no further step, so it ends in
\* exactly one response.  When the embedding fails the
\* response is a 500 and no retriever call was issued.
C11_StagesInOrderOneOutcome ==
  /\ IsPrefix(CallKinds, StageOrder)
  /\ pc = "start" => Len(calls) = 0
  /\ pc = "embed" => Len(calls) = 1
  /\ pc = "search" => Len(calls) = 3
  /\ pc = "fallback" => Len(calls) = 5
  /\ (pc = "done") <=> (response # NoResponse)
  /\ pc = "done" => ~ENABLED Next
  /\ pc = "search" =>
       Settled(semanticResult, keywordResult)
         \/ "pending" \in {semanticResult.status, keywordResult.status}
  /\ pc = "fallback" =>
       Settled(broaderSemantic, broaderKeyword)
         \/ "pending" \in {broaderSemantic.status, broaderKeyword.status}
  /\ Accepted /\ response.status = 200 =>
       /\ Len(calls) \in {3, 5}
       /\ searchResults = Fuse(semanticResult.data, keywordResult.data, FALSE)
       /\ filteredResults = ApplyFilters(searchResults, body.filters)
       /\ Len(calls) = 5 <=> FallbackTrigger(body.enable_fallback, filteredResults, FALSE)
       /\ finalResults = CombineResults(filteredResults, fallbackUsed, fallbackResults)
       /\ response.results = GroupResults(finalResults, body.enable_density_calc)
  /\ EmbeddingFailed => response.status = 500 /\ calls = <<EmbedCall>>

\* A request whose embedding failed has been answered.
C11_Witness == pc = "done" /\ EmbeddingFailed /\ body.user_query = "text"

\* The Authorization header is the service key, the anon key, or a JWT that
\* auth.getUser accepts.
ValidBearer == auth \in {"internal", "user"}

\* The body is JSON and carries no user_query, an empty one, or blanks only.
QueryMissingOrBlank ==
  body.json \in {"object", "null"} /\ body.user_query \in {"missing", "blank"}

\* C12: no embedding call and no retriever call is issued unless the request
\* carries a valid bearer and a user_query that is non-empty after trimming;
\* a POST with a missing or invalid bearer is answered with 401, one with a
\* valid bearer and a missing, empty or whitespace-only user_query with 400
\* and the body {"error": "user_query is required"}.
C12_NoCallWithoutBearerAndQuery ==
  /\ calls # <<>> =>
       method = "POST" /\ ValidBearer /\ body.json = "object" /\ body.user_query = "text"
  /\ pc = "done" /\ method = "POST" /\ ~ValidBearer =>
       response.status = 401 /\ calls = <<>>
  /\ pc = "done" /\ method = "POST" /\ ValidBearer /\ QueryMissingOrBlank =>
       response = ErrorResponse(400, "user_query is required") /\ calls = <<>>

\* What holds of C12: the calls are guarded, the 401 is as stated, and the
\* 400 is the answer when the body is a JSON value other than null.
C12_GuardedCalls ==
  /\ calls # <<>> =>
       method = "POST" /\ ValidBearer /\ body.json = "object" /\ body.user_query = "text"
  /\ pc = "done" /\ method = "POST" /\ ~ValidBearer =>
       response.status = 401 /\ calls = <<>>
  /\ pc = "done" /\ method = "POST" /\ ValidBearer /\ QueryMissingOrBlank
       /\ body.json = "object" =>
       response = ErrorResponse(400, "user_query is required") /\ calls = <<>>

\* The results array as a function of the request body and of what the
\* backend returns to the four calls (s, k: primary dense and lexical rows;
\* bs, bk: outcomes of the fallback calls).
ResultsOf(b, s, k, bs, bk) ==
  LET filtered == ApplyFilters(Fuse(s, k, FALSE), b.filters)
      ran == FallbackTrigger(b.enable_fallback, filtered, FALSE)
      used == ran /\ FallbackSucceeded(bs, bk)
      fb == IF used THEN Fuse(bs.data, bk.data, TRUE) ELSE <<>>
  IN  GroupResults(CombineResults(filtered, used, fb), b.enable_density_calc)

\* What the backend may return to a call: the outcome seen, or any outcome
\* when the handler answered without waiting for the call.
BackendOutcomes(seen) ==
  IF seen.status = "pending" THEN Outcomes(MaxFbLen, Limit(body) * 2) ELSE {seen}

\* C13: the results array of a success response is a function of the request
\* and of the backend's outputs in both passes: it does not depend on which
\* of two concurrent calls completed first, nor on an output the handler did
\* not wait for.  So two requests with identical inputs against the same
\* backend yield equal results arrays, with or without a fallback pass.
C13_ResultsDeterminedByInputs ==
  Accepted /\ response.status = 200 =>
    \A bs \in BackendOutcomes(broaderSemantic), bk \in BackendOutcomes(broaderKeyword) :
      response.results = ResultsOf(body, semanticResult.data, keywordResult.data, bs, bk)

\* A success response that merges the hits of a fallback pass.
C13_Witness ==
  /\ Accepted /\ response.status = 200
  /\ fallbackUsed
  /\ Len(fallbackResults) > 0 /\ Len(filteredResults) > 0
  /\ Len(response.results) = 2

\* ---- C24: the parameters of the fallback calls

\* The two search calls of the primary pass.
PrimaryCalls == SelectSeq(calls, LAMBDA c : c.pass = "primary" /\ c.fn # "embed")

\* C24: the fallback dense call uses the similarity threshold
\* max(0.3, t - 0.2), where t is the threshold passed to the primary dense
\* call of the same request, also for t below 0.3, and both fallback calls
\* use max_results equal to twice the primary limit with the same caller id
\* and the same public_only flag as the primary calls.
C24_FallbackCallParameters ==
  Len(FallbackCalls) = 2 =>
    /\ Len(PrimaryCalls) = 2
    /\ PrimaryCalls[1].fn = "search_document_chunks_semantic"
    /\ FallbackCalls[1].similarity_threshold
         = Max(30, PrimaryCalls[1].similarity_threshold - 20)
    /\ \A n \in 1..2 :
         /\ FallbackCalls[n].max_results = 2 * PrimaryCalls[n].max_results
         /\ FallbackCalls[n].p_user_id = PrimaryCalls[n].p_user_id
         /\ FallbackCalls[n].include_public_only = PrimaryCalls[n].include_public_only

\* A fallback pass after a primary threshold of 0.2: the fallback threshold
\* is 0.3, above the primary one.
C24_Witness ==
  /\ Len(FallbackCalls) = 2
  /\ PrimaryCalls[1].similarity_threshold = 20
  /\ FallbackCalls[1].similarity_threshold = 30
  /\ FallbackCalls[2].max_results = 2

\* ---- C25: the fallback report of the response

\* C25: when the fallback pass is used, fallback_info reports used = true,
\* precision_results equal to the number of primary filtered hits,
\* fallback_results equal to the number of hits the fallback pass added, and
\* total_combined = precision_results + fallback_results, which is also the
\* response's total_chunks.
C25_FallbackInfoAddsUp ==
  pc = "done" /\ response.status = 200 /\ fallbackUsed =>
    LET info == response.fallback_info
    IN  /\ info.used
        /\ info.precision_results = Len(filteredResults)
        /\ info.fallback_results = Len(finalResults) - Len(filteredResults)
        /\ info.total_combined = info.precision_results + info.fallback_results
        /\ info.total_combined = response.total_chunks

\* ---- C26: the post-filter

\* A hit of document documentId, of type documentType and with metadata
\* date date passes every filter that is supplied.
PassesFilters(documentId, documentType, date, filters) ==
  /\ filters.document_id # {} => documentId \in filters.document_id
  /\ filters.document_type # {} => documentType \in filters.document_type
  /\ filters.start # NoDate /\ date # NoDate => date >= filters.start
  /\ filters.end # NoDate /\ date # NoDate => date <= filters.end

\* C26: the post-filter output is a subsequence of the fused list in the
\* same relative order that contains exactly the hits passing every
\* supplied filter: document_id in filters.document_id when that set is
\* non-empty, document_type in filters.document_type when that set is
\* non-empty, and the date within the range for hits that carry a date; when
\* the fallback pass does not run, every chunk of the response satisfies
\* these filters.
C26_FilteredIsPassingSubsequence ==
  /\ filteredResults =
       SelectSeq(searchResults,
                 LAMBDA r : PassesFilters(r.document_id, r.document_type, r.date, body.filters))
  /\ pc = "done" /\ response.status = 200 /\ ~fallbackUsed =>
       \A d \in 1..Len(response.results) :
         \A c \in 1..Len(response.results[d].chunks) :
           /\ response.results[d].chunks[c].id \in Ids(filteredResults)
           /\ PassesFilters(response.results[d].document_id,
                            response.results[d].document_type,
                            response.results[d].chunks[c].date, body.filters)

\* A response without fallback hits to a request with a document_id and a
\* start filter: of two fused hits, one of them dated before the start, the
\* undated one is left.
C26_Witness ==
  /\ pc = "done"
  /\ response.status = 200
  /\ ~fallbackUsed
  /\ body.filters.document_id = {1}
  /\ body.filters.start = 2
  /\ Len(searchResults) = 2
  /\ Len(filteredResults) = 1
  /\ filteredResults[1].date = NoDate
  /\ Len(response.results) = 1

\* ======================================================================
\* The generate-rag-insights edge function: per-document summaries, a
\* cited direct answer and related questions from LLM calls, behind a
\* cache table with a 24 hour time to live.
\*
\* A confidence c is held as the integer 100 * c.  Time is in hours.
\* ======================================================================

\* Longest answer of the model, in tokens.
MaxCitations == 2

\* Requests served in a row by the runs that follow the cache over time.
MaxRequests == 3

\* The latest hour of the clock.
MaxClock == 36

DirectAnswerChunksPerDocument == 4

DirectAnswerContextChunks == 16

DefaultConfidence == 80

ParseFailureConfidence == 60

ErrorConfidence == 0

CacheTtlHours == 24

\* ------------------------------------------------------------- documents

InsightChunk(id, similarity) == [id |-> id, similarity |-> similarity]

InsightDocument(id, title, type, chunks) ==
  [document_id |-> id, document_title |-> title, document_type |-> type,
   chunks |-> chunks]

DocIntro == InsightDocument(1, "Intro", "report",
                            <<InsightChunk(1, 70), InsightChunk(2, 90)>>)

DocGuide == InsightDocument(2, "Guide", "memo", <<InsightChunk(3, 80)>>)

\* A second document that carries the title of DocIntro.
DocIntroCopy == InsightDocument(3, "Intro", "memo", <<InsightChunk(4, 60)>>)

\* A document that came without chunks.
DocNotes == InsightDocument(4, "Notes", "report", <<>>)

\* A document with more chunks than generateDirectAnswer takes from one
\* document, the best of them last.
DocLong == InsightDocument(5, "Long", "report",
                           <<InsightChunk(5, 40), InsightChunk(6, 40),
                             InsightChunk(7, 40), InsightChunk(8, 40),
                             InsightChunk(9, 95)>>)

\* The documents arrays of the requests of the model.
DocumentLists ==
  {<<DocIntro, DocGuide>>, <<DocGuide, DocIntro>>, <<DocIntro, DocIntroCopy>>,
   <<DocGuide, DocNotes>>, <<DocIntro>>, <<DocLong>>}

\* The positions in the array in place of the ids.
DocumentPositions(documents) == [n \in 1..Len(documents) |-> n]

DocumentIds(documents) == [n \in 1..Len(documents) |-> documents[n].document_id]

\* ---------------------------------------------------------- LLM replies

\* An answer text is a sequence of tokens: a citation marker
\* "[Source: TITLE]" with a non-empty TITLE free of "]", or other text.
Marker(title) == [kind |-> "marker", title |-> title]

PlainText == [kind |-> "text", title |-> ""]

Fixed(text) == <<[kind |-> "fixed", title |-> text]>>

AnswerTokens == {Marker("Intro"), Marker("Guide"), Marker("Unknown"), PlainText}

SeqsUpTo(S, n) == UNION {[1..m -> S] : m \in 0..n}

AnswerTexts == SeqsUpTo(AnswerTokens, MaxCitations)

\* What getOpenAIChatCompletion gives the direct-answer task: JSON with an
\* answer, text that JSON.parse rejects, or a thrown error (HTTP status,
\* abort after the timeout).  Confidences are in hundredths; the JSON may
\* carry one above 1.
DirectReplies ==
  {[kind |-> "json", answer |-> a, confidence |-> Absent,
    has_source_documents |-> FALSE, source_documents |-> <<>>] : a \in AnswerTexts}
    \cup {[kind |-> "json", answer |-> <<Marker("Guide")>>, confidence |-> 90,
           has_source_documents |-> TRUE, source_documents |-> <<"Guide">>],
          [kind |-> "json", answer |-> <<PlainText>>, confidence |-> 150,
           has_source_documents |-> FALSE, source_documents |-> <<>>],
          [kind |-> "text", answer |-> <<>>, confidence |-> Absent,
           has_source_documents |-> FALSE, source_documents |-> <<>>],
          [kind |-> "fail", answer |-> <<>>, confidence |-> Absent,
           has_source_documents |-> FALSE, source_documents |-> <<>>]}

\* ------------------------------------------------- generateDirectAnswer

Take(s, n) == SubSeq(s, 1, Min(n, Len(s)))

RECURSIVE FlatMapChunks(_, _)
FlatMapChunks(documents, n) ==
  IF n = 0 THEN <<>>
  ELSE FlatMapChunks(documents, n - 1)
         \o Take(documents[n].chunks, DirectAnswerChunksPerDocument)

\* Stable insertion by descending similarity.
InsertChunk(sorted, c) ==
  LET before == {n \in 1..Len(sorted) : sorted[n].similarity >= c.similarity}
      k == IF before = {} THEN 0 ELSE CHOOSE n \in before : \A m \in before : m <= n
  IN  SubSeq(sorted, 1, k) \o <<c>> \o SubSeq(sorted, k + 1, Len(sorted))

RECURSIVE SortChunksN(_, _)
SortChunksN(s, n) == IF n = 0 THEN <<>> ELSE InsertChunk(SortChunksN(s, n - 1), s[n])

\* The chunks of the prompt context.
TopChunks(documents) ==
  Take(SortChunksN(FlatMapChunks(documents, Len(documents)),
                   Len(FlatMapChunks(documents, Len(documents)))),
       DirectAnswerContextChunks)

\* The first element of documents that is one of passing, the elements
\* that satisfy the test, or <<>>.
Find(documents, passing) ==
  LET hits == {n \in 1..Len(documents) : documents[n] \in passing}
  IN  IF hits = {} THEN <<>>
      ELSE <<documents[CHOOSE n \in hits : \A m \in hits : n <= m]>>

\* s followed by x unless s holds x already.
PushNew(s, x) == IF \E n \in 1..Len(s) : s[n] = x THEN s ELSE Append(s, x)

RECURSIVE SourceDocsN(_, _, _)
SourceDocsN(documents, chunks, n) ==
  IF n = 0 THEN <<>>
  ELSE LET owner == Find(documents,
                         {d \in {documents[m] : m \in 1..Len(documents)} :
                            \E c \in 1..Len(d.chunks) : d.chunks[c].id = chunks[n].id})
           rest == SourceDocsN(documents, chunks, n - 1)
       IN  IF owner = <<>> THEN rest ELSE PushNew(rest, owner[1].document_title)

\* The titles offered to the LLM for citation.
SourceDocs(documents) ==
  SourceDocsN(documents, TopChunks(documents), Len(TopChunks(documents)))

\* answer.match(/\[Source: ([^\]]+)\]/g) and the title of each match.
SourceCitations(answer) ==
  LET markers == SelectSeq(answer, LAMBDA t : t.kind = "marker")
  IN  [n \in 1..Len(markers) |-> markers[n].title]

\* Every document with the cited title, where the code takes the first.
ResolveEveryTitleMatch(documents, titles, n) ==
  LET F[k \in 0..n] ==
        IF k = 0 THEN <<>>
        ELSE LET G[d \in 0..Len(documents)] ==
                   IF d = 0 THEN F[k - 1]
                   ELSE IF documents[d].document_title = titles[k]
                          THEN PushNew(G[d - 1], documents[d].document_id)
                          ELSE G[d - 1]
             IN  G[Len(documents)]
  IN  F[n]

\* The citation loop: the id of the first document with each cited title.
ResolveCitations(documents, titles, n) ==
  LET F[k \in 0..n] ==
        IF k = 0 THEN <<>>
        ELSE LET matchingDoc == Find(documents,
                                     {d \in {documents[m] : m \in 1..Len(documents)} :
                                        d.document_title = titles[k]})
             IN  IF matchingDoc = <<>> THEN F[k - 1]
                 ELSE PushNew(F[k - 1], matchingDoc[1].document_id)
  IN  F[n]

ParseFailureAnswer == Fixed("Based on the available documents, I can provide some relevant information")

ErrorAnswer == Fixed("An error occurred while generating the answer.")

\* The failure default, with every document as a source.
DirectAnswerOnErrorWithSources(documents) ==
  [answer |-> ErrorAnswer, confidence |-> ErrorConfidence,
   source_documents |-> SourceDocs(documents),
   source_document_ids |-> DocumentIds(documents)]

\* The outer catch of generateDirectAnswer.
DirectAnswerOnError(documents) ==
  [answer |-> ErrorAnswer, confidence |-> ErrorConfidence,
   source_documents |-> <<>>, source_document_ids |-> <<>>]

GenerateDirectAnswer(documents, reply) ==
  IF reply.kind = "json"
    THEN LET titles == SourceCitations(reply.answer)
             cited == ResolveCitations(documents, titles, Len(titles))
         IN  [answer |-> reply.answer,
              confidence |-> IF reply.confidence = Absent THEN DefaultConfidence
                             ELSE reply.confidence,
              source_documents |-> IF reply.has_source_documents
                                     THEN reply.source_documents
                                     ELSE SourceDocs(documents),
              source_document_ids |-> IF cited = <<>> THEN DocumentIds(documents)
                                      ELSE cited]
  ELSE IF reply.kind = "text"
    THEN [answer |-> ParseFailureAnswer, confidence |-> ParseFailureConfidence,
          source_documents |-> SourceDocs(documents),
          source_document_ids |-> DocumentIds(documents)]
    ELSE DirectAnswerOnError(documents)

\* --------------------------------------------- generateDocumentSummaries

SummaryDefaultConfidence == 80

SummaryErrorConfidence == 0

\* What the LLM call of one document gives: JSON, with or without a numeric
\* confidence_score, other text, or a thrown error.
SummaryReplies ==
  {[kind |-> "json", relevance_summary |-> "insight", has_confidence_score |-> FALSE,
    confidence_score |-> 0],
   [kind |-> "json", relevance_summary |-> "insight", has_confidence_score |-> TRUE,
    confidence_score |-> 95],
   [kind |-> "json", relevance_summary |-> "insight", has_confidence_score |-> TRUE,
    confidence_score |-> 150],
   [kind |-> "text", relevance_summary |-> "raw text", has_confidence_score |-> FALSE,
    confidence_score |-> 0],
   [kind |-> "fail", relevance_summary |-> "", has_confidence_score |-> FALSE,
    confidence_score |-> 0]}

\* A failed document is left out of the result.
DocumentSummaryOrNone(doc, reply) ==
  IF reply.kind = "fail" THEN <<>>
  ELSE <<[document_id |-> doc.document_id, document_title |-> doc.document_title,
          document_type |-> doc.document_type,
          relevance_summary |-> reply.relevance_summary,
          confidence_score |-> IF reply.has_confidence_score
                                 THEN reply.confidence_score
                                 ELSE SummaryDefaultConfidence]>>

\* The task of one document; a one-element list.
DocumentSummary(doc, reply) ==
  <<[document_id |-> doc.document_id, document_title |-> doc.document_title,
     document_type |-> doc.document_type,
     relevance_summary |-> IF reply.kind = "fail" THEN "Summary unavailable."
                           ELSE reply.relevance_summary,
     confidence_score |-> IF reply.kind = "fail" THEN SummaryErrorConfidence
                          ELSE IF reply.has_confidence_score
                                 THEN reply.confidence_score
                                 ELSE SummaryDefaultConfidence]>>

RECURSIVE SummariesN(_, _, _)
SummariesN(documents, replies, n) ==
  IF n = 0 THEN <<>>
  ELSE SummariesN(documents, replies, n - 1) \o DocumentSummary(documents[n], replies[n])

\* Promise.all(tasks): the summaries in the order of the documents.
GenerateDocumentSummaries(documents, replies) ==
  SummariesN(documents, replies, Len(documents))

\* doc.chunks.sort(...) sorts the chunks array of the request's document.
ChunksSortedInPlace(documents) ==
  [n \in 1..Len(documents) |->
     [documents[n] EXCEPT !.chunks = SortChunksN(documents[n].chunks,
                                                 Len(documents[n].chunks))]]

\* ----------------------------------------------- generateRelatedQuestions

\* JSON holding an array of questions, JSON of another shape or text that
\* does not parse, or a thrown error.
RelatedReplies ==
  {[kind |-> "json", questions |-> <<"follow-up">>],
   [kind |-> "text", questions |-> <<>>],
   [kind |-> "fail", questions |-> <<>>]}

GenerateRelatedQuestions(reply) ==
  IF reply.kind = "json" THEN reply.questions ELSE <<>>

\* ------------------------------------------------------ generateCacheKey

\* A query, by what btoa makes of it: the base64 text, or an
\* InvalidCharacterError when a character is outside Latin1.
QueryPlain == [text |-> "a", latin1 |-> TRUE, base64 |-> <<"Y", "Q", "=", "=">>]

QueryWide == [text |-> "wide", latin1 |-> FALSE, base64 |-> <<>>]

NoQuery == [text |-> "", latin1 |-> TRUE, base64 |-> <<>>]

\* replace(/[^a-zA-Z0-9]/g, '') on base64 text.
StripNonAlphanumeric(text) == SelectSeq(text, LAMBDA ch : ch \notin {"+", "/", "="})

IdText(id) == <<"1", "2", "3", "4", "5">>[id]

InsertId(sorted, id) ==
  LET before == {n \in 1..Len(sorted) : sorted[n] <= id}
      k == IF before = {} THEN 0 ELSE CHOOSE n \in before : \A m \in before : m <= n
  IN  SubSeq(sorted, 1, k) \o <<id>> \o SubSeq(sorted, k + 1, Len(sorted))

RECURSIVE SortIdsN(_, _)
SortIdsN(ids, n) == IF n = 0 THEN <<>> ELSE InsertId(SortIdsN(ids, n - 1), ids[n])

RECURSIVE JoinIds(_, _)
JoinIds(ids, n) ==
  IF n = 0 THEN <<>>
  ELSE IF n = 1 THEN <<IdText(ids[1])>>
  ELSE JoinIds(ids, n - 1) \o <<",", IdText(ids[n])>>

\* The key as the sequence of its characters; <<"throw">> when btoa throws.
GenerateCacheKey(query, documents, insightType) ==
  IF ~query.latin1 THEN <<"throw">>
  ELSE LET docIds == SortIdsN(DocumentIds(documents), Len(documents))
       IN  <<insightType, "_">> \o StripNonAlphanumeric(query.base64) \o <<"_">>
             \o JoinIds(docIds, Len(docIds))

\* ----------------------------------------------- checkCache, storeInCache

CacheRow(key, insights, expiresAt) ==
  [cache_key |-> key, insights_data |-> insights, expires_at |-> expiresAt]

\* .eq('cache_key', key).gt('expires_at', now)
LiveRows(table, key, t) ==
  {row \in table : row.cache_key = key /\ row.expires_at > t}

\* checkCache: <<insights_data>> of the single live row, <<>> for null (no
\* row, or an error of the query).
CheckCache(table, key, t, outcome) ==
  LET rows == LiveRows(table, key, t)
  IN  IF outcome = "error" \/ Cardinality(rows) # 1 THEN <<>>
      ELSE <<(CHOOSE row \in rows : TRUE).insights_data>>

\* upsert(row) without onConflict resolves conflicts on the primary key id,
\* which the row does not carry: it is an insert, and the UNIQUE constraint
\* on cache_key rejects it when a row of that key exists.
Upsert(table, row) ==
  IF \E r \in table : r.cache_key = row.cache_key THEN table
  ELSE table \cup {row}

\* A store whose error loses the table.
StoreInCacheLosingRows(table, key, insights, t, outcome) ==
  IF outcome = "error" THEN {}
  ELSE Upsert(table, CacheRow(key, insights, t + CacheTtlHours))

\* storeInCache: the table after the call; an error is logged and dropped.
StoreInCache(table, key, insights, t, outcome) ==
  IF outcome = "error" THEN table
  ELSE Upsert(table, CacheRow(key, insights, t + CacheTtlHours))

\* ------------------------------------------------------ insights requests

InsightTypes ==
  {"document_summaries", "direct_answer", "related_questions", "all", "key_questions"}

SuppliedKey == <<"k1">>

NoKey == <<>>

InsightBody(query, documents, insightType, key) ==
  [json |-> "object", user_query |-> query, documents |-> documents,
   insight_type |-> insightType, cache_key |-> key]

InsightRequest(a, b) == [method |-> "POST", auth |-> a, body |-> b]

NoInsightRequest ==
  InsightRequest("missing", InsightBody(NoQuery, <<>>, "all", NoKey))

\* Requests that differ in the caller and in the key, served again and
\* again to follow the cache over time.
CacheRequests ==
  {InsightRequest("user", InsightBody(QueryPlain, <<DocIntro>>, "related_questions", NoKey)),
   InsightRequest("internal", InsightBody(QueryPlain, <<DocIntro>>, "related_questions",
                                          SuppliedKey))}

\* Requests that vary the documents and the kinds, each served to a fresh
\* function.
GenerationRequests ==
  {InsightRequest("user", InsightBody(QueryPlain, d, "direct_answer", NoKey)) :
     d \in DocumentLists}
    \cup {InsightRequest("user", InsightBody(QueryPlain, d, "document_summaries", NoKey)) :
            d \in {<<DocIntro, DocGuide>>, <<DocIntro>>}}
    \cup {InsightRequest("user", InsightBody(QueryPlain, <<DocIntro, DocGuide>>, "all", NoKey)),
          InsightRequest("user", InsightBody(QueryPlain, <<DocLong>>, "all", NoKey)),
          InsightRequest("user", InsightBody(QueryPlain, <<DocIntro>>, "key_questions", NoKey)),
          InsightRequest("user", InsightBody(QueryWide, <<DocIntro>>, "related_questions", NoKey)),
          InsightRequest("user", InsightBody(QueryWide, <<DocIntro>>, "related_questions",
                                             SuppliedKey))}

\* Requests the validation turns down with a 400.
InvalidBodies ==
  {InsightBody(NoQuery, <<DocIntro>>, "all", NoKey),
   InsightBody(QueryPlain, <<>>, "all", NoKey)}

\* The kinds an insight_type selects.
Selected(insightType) ==
  IF insightType = "all"
    THEN {"document_summaries", "direct_answer", "related_questions"}
    ELSE {insightType} \cap {"document_summaries", "direct_answer", "related_questions"}

\* body.cache_key || generateCacheKey(...)
CacheKeyOf(b) ==
  IF b.cache_key # NoKey THEN b.cache_key
  ELSE GenerateCacheKey(b.user_query, b.documents, b.insight_type)

NoDirectReply ==
  [kind |-> "none", answer |-> <<>>, confidence |-> Absent,
   has_source_documents |-> FALSE, source_documents |-> <<>>]

NoDirectAnswer ==
  [answer |-> <<>>, confidence |-> 0, source_documents |-> <<>>,
   source_document_ids |-> <<>>]

NoRelatedReply == [kind |-> "none", questions |-> <<>>]

NoInsights ==
  [kinds |-> {}, document_summaries |-> <<>>, direct_answer |-> NoDirectAnswer,
   related_questions |-> <<>>]

NoSummariesTask == [status |-> "none", replies |-> <<>>, value |-> <<>>]

NoDirectTask == [status |-> "none", reply |-> NoDirectReply, value |-> NoDirectAnswer]

NoRelatedTask == [status |-> "none", reply |-> NoRelatedReply, value |-> <<>>]

\* ------------------------------------------------------- insights handler

\* No search rpc issued yet.
NoRpcResult ==
  [fn |-> "none", auth |-> "missing",
   params |-> [similarity_threshold |-> 0, max_results |-> 0, p_user_id |-> 0,
               include_public_only |-> FALSE],
   data |-> <<>>, error |-> FALSE]

\* The LLM calls one request runs side by side.
LlmCallIds == {1, 2}

\* A call of getOpenAIChatCompletion that has not started.
IdleCall ==
  [pc |-> "idle", timeout |-> "none", started |-> 0, server |-> "none", outcome |-> "none"]

InsightsInit ==
  /\ Init
  /\ insightsPc = "idle"
  /\ request = NoInsightRequest
  /\ bodyDocuments = <<>>
  /\ cacheKey = NoKey
  /\ backendFailed = FALSE
  /\ summariesTask = NoSummariesTask
  /\ directTask = NoDirectTask
  /\ relatedTask = NoRelatedTask
  /\ insight_cache = {}
  /\ search_history = <<>>
  /\ now = 0
  /\ answers = <<>>
  /\ schema = "none"
  /\ documentsTable = {}
  /\ documentChunks = {}
  /\ rpcResult = NoRpcResult
  /\ completions = [c \in LlmCallIds |-> IdleCall]
  /\ elapsed = 0
  /\ responded = FALSE

Spec == InsightsInit /\ [][Next]_<<vars, ivars, svars, lvars>>

\* A response of generate-rag-insights with what the request did.
InsightAnswer(r, key, t, status, error, cached, insights, llm, writes, appends) ==
  [request |-> r, cache_key |-> key, at |-> t, status |-> status, error |-> error,
   cached |-> cached, insights |-> insights, llm_calls |-> llm,
   cache_writes |-> writes, history_appends |-> appends]

Rejection(r, t, status, error) ==
  InsightAnswer(r, NoKey, t, status, error, FALSE, NoInsights, 0, 0, 0)

\* The function serves one request at a time, at most MaxRequests in a run;
\* a run goes on after a request of CacheRequests that was answered with
\* 200, and serves the other requests first only: a rejected request
\* touches neither table, and the requests of GenerationRequests are
\* followed within one request.
Serving ==
  /\ insightsPc = "idle"
  /\ Len(answers) < MaxRequests
  /\ \A n \in 1..Len(answers) :
       answers[n].status = 200 /\ answers[n].request \in CacheRequests

MayArrive(r) == Serving /\ (r \in CacheRequests \/ answers = <<>>)

\* The number of LLM calls the tasks of a request issue.
LlmCalls(b) ==
  (IF "document_summaries" \in Selected(b.insight_type) THEN Len(b.documents) ELSE 0)
    + (IF "direct_answer" \in Selected(b.insight_type) THEN 1 ELSE 0)
    + (IF "related_questions" \in Selected(b.insight_type) THEN 1 ELSE 0)

\* OPTIONS, a method other than POST, no Authorization header, a rejected JWT.
InsightsRejectEarly ==
  /\ Serving /\ answers = <<>>
  /\ \E m \in Methods, a \in AuthCases :
       /\ m # "POST" \/ a \in {"missing", "invalid"}
       /\ answers' = Append(answers,
            LET r == [NoInsightRequest EXCEPT !.method = m, !.auth = a]
            IN  IF m = "OPTIONS" THEN Rejection(r, now, 200, "")
                ELSE IF m # "POST" THEN Rejection(r, now, 405, "Method not allowed")
                ELSE IF a = "missing"
                       THEN Rejection(r, now, 401, "Missing authorization header")
                       ELSE Rejection(r, now, 401, "Invalid or expired token"))
  /\ UNCHANGED <<insightsPc, request, bodyDocuments, cacheKey, backendFailed,
                 summariesTask, directTask, relatedTask, insight_cache, search_history, now>>
  /\ UNCHANGED <<vars, svars, lvars>>

\* An authorized POST without user_query or without documents: 400.  A body
\* that is no JSON, or is null: the outer catch answers 500.
InsightsRejectBody ==
  /\ Serving /\ answers = <<>>
  /\ \E a \in {"internal", "user"} :
       \/ \E b \in InvalidBodies :
            answers' = Append(answers, Rejection(InsightRequest(a, b), now, 400,
                                                 "user_query and documents are required"))
       \/ \E j \in {"unparsable", "null"} :
            answers' = Append(answers,
              Rejection(InsightRequest(a, [NoInsightRequest.body EXCEPT !.json = j]),
                        now, 500, "Internal server error"))
  /\ UNCHANGED <<insightsPc, request, bodyDocuments, cacheKey, backendFailed,
                 summariesTask, directTask, relatedTask, insight_cache, search_history, now>>
  /\ UNCHANGED <<vars, svars, lvars>>

\* No cache_key in the body and btoa throws on the query: the outer catch
\* answers 500.
InsightsKeyFails ==
  /\ \E r \in CacheRequests \cup GenerationRequests :
       /\ MayArrive(r)
       /\ CacheKeyOf(r.body) = <<"throw">>
       /\ answers' = Append(answers, Rejection(r, now, 500, "Internal server error"))
  /\ UNCHANGED <<insightsPc, request, bodyDocuments, cacheKey, backendFailed,
                 summariesTask, directTask, relatedTask, insight_cache, search_history, now>>
  /\ UNCHANGED <<vars, svars, lvars>>

\* checkCache finds a live row: the response is its insights_data.
InsightsCacheHit ==
  /\ \E r \in CacheRequests \cup GenerationRequests :
       /\ MayArrive(r)
       /\ CacheKeyOf(r.body) # <<"throw">>
       /\ LET key == CacheKeyOf(r.body)
              cachedInsights == CheckCache(insight_cache, key, now, "ok")
          IN  /\ cachedInsights # <<>>
              /\ answers' = Append(answers,
                   InsightAnswer(r, key, now, 200, "", TRUE, cachedInsights[1], 0, 0, 0))
  /\ UNCHANGED <<insightsPc, request, bodyDocuments, cacheKey, backendFailed,
                 summariesTask, directTask, relatedTask, insight_cache, search_history, now>>
  /\ UNCHANGED <<vars, svars, lvars>>

PendingSummaries == [NoSummariesTask EXCEPT !.status = "pending"]

PendingDirect == [NoDirectTask EXCEPT !.status = "pending"]

PendingRelated == [NoRelatedTask EXCEPT !.status = "pending"]

\* checkCache returns null (no live row, or an error): the selected tasks
\* are started.  generateDocumentSummaries runs first and sorts the chunks
\* of every document before any other task reads them.
InsightsCacheMiss ==
  /\ \E r \in CacheRequests \cup GenerationRequests, outcome \in {"ok", "error"} :
       /\ MayArrive(r)
       /\ CacheKeyOf(r.body) # <<"throw">>
       /\ CheckCache(insight_cache, CacheKeyOf(r.body), now, outcome) = <<>>
       /\ request' = r
       /\ cacheKey' = CacheKeyOf(r.body)
       /\ backendFailed' = (backendFailed \/ outcome = "error")
       /\ LET kinds == Selected(r.body.insight_type)
          IN  /\ bodyDocuments' = IF "document_summaries" \in kinds
                                    THEN ChunksSortedInPlace(r.body.documents)
                                    ELSE r.body.documents
              /\ summariesTask' = IF "document_summaries" \in kinds
                                    THEN PendingSummaries ELSE NoSummariesTask
              /\ directTask' = IF "direct_answer" \in kinds
                                 THEN PendingDirect ELSE NoDirectTask
              /\ relatedTask' = IF "related_questions" \in kinds
                                  THEN PendingRelated ELSE NoRelatedTask
  /\ insightsPc' = "tasks"
  /\ UNCHANGED <<insight_cache, search_history, now, answers>>
  /\ UNCHANGED <<vars, svars, lvars>>

\* The LLM calls of the per-document tasks are over.
SummariesReturn ==
  /\ insightsPc = "tasks"
  /\ summariesTask.status = "pending"
  /\ \E replies \in [1..Len(bodyDocuments) -> SummaryReplies] :
       summariesTask' = [status |-> "done", replies |-> replies,
                         value |-> GenerateDocumentSummaries(bodyDocuments, replies)]
  /\ UNCHANGED <<insightsPc, request, bodyDocuments, cacheKey, backendFailed,
                 directTask, relatedTask,
                 insight_cache, search_history, now, answers>>
  /\ UNCHANGED <<vars, svars, lvars>>

DirectAnswerReturns ==
  /\ insightsPc = "tasks"
  /\ directTask.status = "pending"
  /\ \E reply \in DirectReplies :
       directTask' = [status |-> "done", reply |-> reply,
                      value |-> GenerateDirectAnswer(bodyDocuments, reply)]
  /\ UNCHANGED <<insightsPc, request, bodyDocuments, cacheKey, backendFailed,
                 summariesTask, relatedTask,
                 insight_cache, search_history, now, answers>>
  /\ UNCHANGED <<vars, svars, lvars>>

RelatedQuestionsReturn ==
  /\ insightsPc = "tasks"
  /\ relatedTask.status = "pending"
  /\ \E reply \in RelatedReplies :
       relatedTask' = [status |-> "done", reply |-> reply,
                       value |-> GenerateRelatedQuestions(reply)]
  /\ UNCHANGED <<insightsPc, request, bodyDocuments, cacheKey, backendFailed,
                 summariesTask, directTask,
                 insight_cache, search_history, now, answers>>
  /\ UNCHANGED <<vars, svars, lvars>>

\* Promise.all(Object.values(insightPromises)) has resolved.
AllSettled(summaries, direct, related) ==
  "pending" \notin {summaries.status, direct.status, related.status}

\* The insights object assembled from the results.
Insights(kinds, summaries, direct, related) ==
  [kinds |-> kinds, document_summaries |-> summaries.value,
   direct_answer |-> direct.value, related_questions |-> related.value]

HistoryRow(r, insights) ==
  [user_id |-> UserId(r.auth), query |-> r.body.user_query.text,
   direct_answer |-> insights.direct_answer.answer,
   related_questions |-> insights.related_questions,
   clicked_documents |-> DocumentIds(r.body.documents)]

\* All tasks are over: store the bundle, append the history row of a user,
\* answer.  A failing store or insert is logged and dropped.
InsightsAnswer ==
  /\ insightsPc = "tasks"
  /\ AllSettled(summariesTask, directTask, relatedTask)
  /\ \E storeOutcome \in {"ok", "error"}, historyOutcome \in {"ok", "error"} :
       LET insights == Insights(Selected(request.body.insight_type), summariesTask,
                                directTask, relatedTask)
           appended == request.auth = "user" /\ historyOutcome = "ok"
       IN  /\ request.auth # "user" => historyOutcome = "ok"
           /\ insight_cache' = StoreInCache(insight_cache, cacheKey, insights, now,
                                            storeOutcome)
           /\ search_history' = IF appended
                                  THEN Append(search_history, HistoryRow(request, insights))
                                  ELSE search_history
           /\ answers' = Append(answers,
                InsightAnswer(request, cacheKey, now, 200, "", FALSE, insights,
                              LlmCalls(request.body), 1,
                              IF appended THEN 1 ELSE 0))
           /\ backendFailed' = (backendFailed
                                  \/ "error" \in {storeOutcome, historyOutcome})
  /\ insightsPc' = "idle"
  /\ request' = NoInsightRequest
  /\ bodyDocuments' = <<>>
  /\ cacheKey' = NoKey
  /\ summariesTask' = NoSummariesTask
  /\ directTask' = NoDirectTask
  /\ relatedTask' = NoRelatedTask
  /\ UNCHANGED now
  /\ UNCHANGED <<vars, svars, lvars>>

\* Time passes between two requests.
TickHours == {12, 24}

Tick ==
  /\ Serving
  /\ answers # <<>>
  /\ \E d \in TickHours :
       /\ now + d <= MaxClock
       /\ now' = now + d
  /\ UNCHANGED <<insightsPc, request, bodyDocuments, cacheKey, backendFailed,
                 summariesTask, directTask, relatedTask, insight_cache, search_history, answers>>
  /\ UNCHANGED <<vars, svars, lvars>>

InsightsNext ==
  \/ InsightsRejectEarly
  \/ InsightsRejectBody
  \/ InsightsKeyFails
  \/ InsightsCacheHit
  \/ InsightsCacheMiss
  \/ SummariesReturn
  \/ DirectAnswerReturns
  \/ RelatedQuestionsReturn
  \/ InsightsAnswer
  \/ Tick

SpecInsights == InsightsInit /\ [][InsightsNext]_<<vars, ivars, svars, lvars>>

\* ------------------------------------------------------- insights claims

IdsOf(docs) == {docs[n].document_id : n \in 1..Len(docs)}

Elements(s) == {s[n] : n \in 1..Len(s)}

\* C14: whatever the LLM reply (JSON, unparsable text, error or timeout),
\* every element of the source_document_ids of the DirectAnswer is the
\* document_id of a document in the documents array of the same request.
C14_SourceIdsAreRequestDocuments ==
  /\ directTask.status = "done" =>
       Elements(directTask.value.source_document_ids) \subseteq IdsOf(request.body.documents)
  /\ \A n \in 1..Len(answers) :
       answers[n].status = 200 /\ ~answers[n].cached =>
         Elements(answers[n].insights.direct_answer.source_document_ids)
           \subseteq IdsOf(answers[n].request.body.documents)

\* A direct answer that cites the title two documents carry.
C14_Witness ==
  /\ directTask.status = "done"
  /\ directTask.reply.kind = "json"
  /\ request.body.documents = <<DocIntro, DocIntroCopy>>
  /\ directTask.value.source_document_ids = <<1>>

HasTitle(docs, t) == \E n \in 1..Len(docs) : docs[n].document_title = t

FirstWithTitle(docs, t) ==
  docs[CHOOSE n \in 1..Len(docs) :
         /\ docs[n].document_title = t
         /\ \A m \in 1..(n - 1) : docs[m].document_title # t]

DocumentWithId(docs, id) == CHOOSE d \in Elements(docs) : d.document_id = id

FirstCitationOf(titles, t) ==
  CHOOSE k \in 1..Len(titles) : titles[k] = t /\ \A j \in 1..(k - 1) : titles[j] # t

NoRepeats(s) == \A i, j \in 1..Len(s) : s[i] = s[j] => i = j

\* The direct-answer task got JSON in which a citation names the title of
\* an input document.
CitationResolves ==
  /\ directTask.status = "done"
  /\ directTask.reply.kind = "json"
  /\ \E t \in Elements(SourceCitations(directTask.reply.answer)) :
       HasTitle(request.body.documents, t)

\* ids, without repeats, in the order in which the titles of their
\* documents are first cited.
InCitationOrder(docs, titles, ids) ==
  /\ NoRepeats(ids)
  /\ \A i, j \in 1..Len(ids) :
       i < j => FirstCitationOf(titles, DocumentWithId(docs, ids[i]).document_title)
                  <= FirstCitationOf(titles, DocumentWithId(docs, ids[j]).document_title)

\* C15 as stated: when a citation names the exact title of an input
\* document, source_document_ids lists, in order of first citation and
\* without repeats, the ids of the input documents whose title equals a
\* cited TITLE.
C15_Original ==
  CitationResolves =>
    LET docs == request.body.documents
        titles == SourceCitations(directTask.reply.answer)
        ids == directTask.value.source_document_ids
    IN  /\ Elements(ids) = {d.document_id : d \in {x \in Elements(docs) :
                                                     x.document_title \in Elements(titles)}}
        /\ InCitationOrder(docs, titles, ids)

\* C15: when a citation names the exact title of an input document,
\* source_document_ids lists, in order of first citation and without
\* repeats, for each cited TITLE that an input document carries the id of
\* the first such document in the documents array; a later document with
\* the same title and a cited title no document carries contribute nothing.
C15_FirstDocumentOfEachCitedTitle ==
  CitationResolves =>
    LET docs == request.body.documents
        titles == SourceCitations(directTask.reply.answer)
        ids == directTask.value.source_document_ids
    IN  /\ Elements(ids) = {FirstWithTitle(docs, t).document_id :
                              t \in {x \in Elements(titles) : HasTitle(docs, x)}}
        /\ InCitationOrder(docs, titles, ids)

\* Two citations of a title that two documents carry, answered with the
\* first document only.
C15_Witness ==
  /\ CitationResolves
  /\ request.body.documents = <<DocIntro, DocIntroCopy>>
  /\ directTask.reply.answer = <<Marker("Intro"), Marker("Intro")>>
  /\ directTask.value.source_document_ids = <<1>>

Several(insightType) == Cardinality(Selected(insightType)) > 1

\* The value of each finished task is a function of the request and of the
\* reply to its own LLM call; a failed call gives the default of its kind.
TaskValuesAreOwn ==
  /\ directTask.status = "done" =>
       /\ directTask.value = GenerateDirectAnswer(bodyDocuments, directTask.reply)
       /\ directTask.reply.kind = "fail" =>
            /\ directTask.value.answer = ErrorAnswer
            /\ directTask.value.confidence = 0
            /\ directTask.value.source_documents = <<>>
            /\ directTask.value.source_document_ids = <<>>
  /\ relatedTask.status = "done" =>
       /\ relatedTask.value = GenerateRelatedQuestions(relatedTask.reply)
       /\ relatedTask.reply.kind = "fail" => relatedTask.value = <<>>
  /\ summariesTask.status = "done" =>
       summariesTask.value = GenerateDocumentSummaries(bodyDocuments, summariesTask.replies)

\* The selected tasks are started together, a task that ends leaves the
\* other tasks as they are, and once all have ended the response is a 200
\* that holds the value of every selected kind.
TasksStep ==
  /\ insightsPc = "idle" /\ insightsPc' = "tasks" =>
       LET kinds == Selected(request'.body.insight_type)
       IN  /\ "document_summaries" \in kinds <=> summariesTask'.status = "pending"
           /\ "direct_answer" \in kinds <=> directTask'.status = "pending"
           /\ "related_questions" \in kinds <=> relatedTask'.status = "pending"
  /\ insightsPc = "tasks" /\ insightsPc' = "tasks" =>
       Cardinality({n \in 1..3 :
                      <<summariesTask, directTask, relatedTask>>[n]
                        # <<summariesTask', directTask', relatedTask'>>[n]}) <= 1
  /\ insightsPc = "tasks" /\ insightsPc' = "idle" =>
       LET a == answers'[Len(answers')]
           kinds == Selected(request.body.insight_type)
       IN  /\ Len(answers') = Len(answers) + 1
           /\ a.status = 200 /\ ~a.cached
           /\ a.insights.kinds = kinds
           /\ "document_summaries" \in kinds =>
                a.insights.document_summaries = summariesTask.value
           /\ "direct_answer" \in kinds => a.insights.direct_answer = directTask.value
           /\ "related_questions" \in kinds =>
                a.insights.related_questions = relatedTask.value

\* C16: in a request that selects several kinds the LLM calls run
\* concurrently, and the failure or timeout of any of them neither fails
\* the request nor changes the value of another kind: the response is a
\* success with every selected kind, a failed direct_answer is the error
\* answer with confidence 0 and empty source lists, failed
\* related_questions are the empty list.
C16_FailedKindsDegradeAlone ==
  [](Several(request.body.insight_type) => TaskValuesAreOwn)
    /\ [][Several(request.body.insight_type) \/ Several(request'.body.insight_type)
            => TasksStep]_<<vars, ivars, svars, lvars>>

\* The response to a request for all kinds in which the direct answer and
\* the related questions failed and the summaries did not.
C16_Witness ==
  /\ answers # <<>>
  /\ answers[1].request.body.insight_type = "all"
  /\ answers[1].status = 200
  /\ answers[1].insights.direct_answer = DirectAnswerOnError(answers[1].request.body.documents)
  /\ answers[1].insights.related_questions = <<>>
  /\ Len(answers[1].insights.document_summaries) = 2
  /\ answers[1].insights.document_summaries[1].relevance_summary = "insight"

\* C17: generateDocumentSummaries returns exactly one DocumentSummary per
\* input document, in input order, each with the id, title and type of its
\* document; a document whose LLM call failed or timed out has
\* relevance_summary "Summary unavailable." and confidence_score 0, and the
\* summary of every other document is the one its own reply gives.
C17_OneSummaryPerDocument ==
  summariesTask.status = "done" =>
    LET docs == request.body.documents
        replies == summariesTask.replies
        value == summariesTask.value
    IN  /\ Len(value) = Len(docs)
        /\ \A n \in 1..Len(docs) :
             /\ value[n].document_id = docs[n].document_id
             /\ value[n].document_title = docs[n].document_title
             /\ value[n].document_type = docs[n].document_type
             /\ replies[n].kind = "fail" =>
                  /\ value[n].relevance_summary = "Summary unavailable."
                  /\ value[n].confidence_score = 0
             /\ replies[n].kind # "fail" =>
                  /\ value[n].relevance_summary = replies[n].relevance_summary
                  /\ value[n].confidence_score =
                       IF replies[n].has_confidence_score
                         THEN replies[n].confidence_score ELSE SummaryDefaultConfidence

\* Two documents: the call of the first failed, the second got its summary.
C17_Witness ==
  /\ summariesTask.status = "done"
  /\ Len(request.body.documents) = 2
  /\ summariesTask.replies[1].kind = "fail"
  /\ summariesTask.replies[2].kind = "json"
  /\ summariesTask.value[2].relevance_summary = "insight"

\* ---- C18: a freshly generated bundle is served from the cache for 24 hours

\* A request that passes the method, authorization and body checks.
PassesChecks(r) ==
  /\ r.method = "POST"
  /\ r.auth \in {"internal", "user"}
  /\ r.body.json = "object"
  /\ r.body.user_query # NoQuery
  /\ r.body.documents # <<>>

\* Answer i carries a bundle the handler generated on that request.
Fresh(i) ==
  /\ PassesChecks(answers[i].request)
  /\ answers[i].status = 200
  /\ ~answers[i].cached

\* Answer j is for the key of answer i and comes less than 24 hours after it.
WithinTtlOf(i, j) ==
  /\ i < j
  /\ answers[j].cache_key = answers[i].cache_key
  /\ answers[j].at < answers[i].at + CacheTtlHours

\* C18: when a request answers with a freshly generated bundle at t0, every
\* later request with the same key made less than 24 hours after t0 answers
\* with that same bundle and cached = true.  Stated for the runs in which the
\* backend fails no cache or history operation.
C18_FreshBundleServedFromCache ==
  ~backendFailed =>
    \A i, j \in 1..Len(answers) :
      Fresh(i) /\ WithinTtlOf(i, j) =>
        /\ answers[j].cached
        /\ answers[j].insights = answers[i].insights


\* ---- C19: expiry of a cache entry and the write that follows it

\* The last write for a key before answer j: the latest earlier answer that
\* generated a bundle for it.
LastWriteBefore(j) ==
  LET earlier == {i \in 1..(j - 1) :
                    Fresh(i) /\ answers[i].cache_key = answers[j].cache_key}
  IN  IF earlier = {} THEN 0
      ELSE CHOOSE i \in earlier : \A k \in earlier : k <= i

\* C19: a lookup returns the bundle stored under a key iff the entry's
\* expires_at is strictly later than the lookup time, and a write sets
\* expires_at to the write time plus 24 hours; so a request made 24 hours or
\* more after the last write for its key is a miss that regenerates the
\* bundle and stores it again, after which lookups within the next 24 hours
\* hit the new bundle.  Stated for the runs in which the backend fails no
\* cache or history operation.
C19_ExpiredEntryIsWrittenAgain ==
  ~backendFailed =>
    /\ \A row \in insight_cache, t \in 0..MaxClock :
         (CheckCache(insight_cache, row.cache_key, t, "ok") = <<row.insights_data>>)
           <=> (row.expires_at > t)
    /\ \A j \in 1..Len(answers) :
         LET i == LastWriteBefore(j)
         IN  /\ answers[j].status = 200
             /\ i # 0
             /\ answers[j].at >= answers[i].at + CacheTtlHours
             => /\ ~answers[j].cached
                /\ LlmCalls(answers[j].request.body) = answers[j].llm_calls
    /\ insightsPc = "idle" /\ answers # <<>> /\ Fresh(Len(answers)) =>
         LET a == answers[Len(answers)]
         IN  /\ CacheRow(a.cache_key, a.insights, a.at + CacheTtlHours) \in insight_cache
             /\ \A t \in a.at..(a.at + CacheTtlHours - 1) :
                  CheckCache(insight_cache, a.cache_key, t, "ok") = <<a.insights>>

\* ---- C20: the key a request is looked up under, and a hit

\* C20: a request is looked up under the cache_key of its body when there is
\* one and under the key derived from type, query and document ids otherwise;
\* a hit answers with the stored bundle and cached = true, without any LLM
\* call, cache write or history append.
C20_LookupUnderSuppliedOrDerivedKey ==
  \A n \in 1..Len(answers) :
    LET a == answers[n]
        b == a.request.body
    IN  PassesChecks(a.request) =>
          /\ a.status = 200
          /\ a.cache_key = IF b.cache_key # NoKey THEN b.cache_key
                           ELSE GenerateCacheKey(b.user_query, b.documents, b.insight_type)
          /\ a.cached =>
               /\ a.llm_calls = 0
               /\ a.cache_writes = 0
               /\ a.history_appends = 0
               /\ \E row \in insight_cache :
                    row.cache_key = a.cache_key /\ row.insights_data = a.insights

\* ---- C21: errors of the cache and of the history never fail a request

\* The bundle the tasks of the current request have produced.
CurrentBundle ==
  Insights(Selected(request.body.insight_type), summariesTask, directTask, relatedTask)

\* A step in which the backend fails its first operation while the function
\* is idle is a failed lookup: the request goes on as a miss.  The step that
\* answers a miss sends the generated bundle with status 200, whatever the
\* store and the history insert did; the table and the history are as they
\* were or hold the new row.
BackendStep ==
  /\ insightsPc = "idle" /\ ~backendFailed /\ backendFailed' =>
       /\ insightsPc' = "tasks"
       /\ answers' = answers
       /\ insight_cache' = insight_cache
  /\ insightsPc = "tasks" /\ insightsPc' = "idle" =>
       LET a == answers'[Len(answers')]
       IN  /\ Len(answers') = Len(answers) + 1
           /\ a.status = 200
           /\ ~a.cached
           /\ a.insights = CurrentBundle
           /\ insight_cache' \in
                {insight_cache,
                 insight_cache \cup {CacheRow(cacheKey, CurrentBundle, now + CacheTtlHours)}}
           /\ search_history' \in
                {search_history, Append(search_history, HistoryRow(request, CurrentBundle))}

\* C21: an error of the cache lookup, of the cache store or of the history
\* append never fails an insights request: a lookup error is treated as a
\* miss, a store error is ignored, and the response is the freshly generated
\* bundle with a success status.
C21_BackendErrorsNeverFailRequest ==
  [](\A n \in 1..Len(answers) :
       PassesChecks(answers[n].request) /\ CacheKeyOf(answers[n].request.body) # <<"throw">>
         => answers[n].status = 200)
    /\ [][BackendStep]_<<vars, ivars, svars, lvars>>

\* Three answers for one key from a user: the store of the first failed,
\* the second was stored, the lookup of the third failed although the row
\* was live, and no history row was written.
C21_Witness ==
  /\ Len(answers) = 3
  /\ \A n \in 1..3 : Fresh(n) /\ answers[n].request.auth = "user"
  /\ answers[1].at < answers[2].at
  /\ answers[3].at < answers[2].at + CacheTtlHours
  /\ insight_cache = {CacheRow(answers[2].cache_key, answers[2].insights,
                               answers[2].at + CacheTtlHours)}
  /\ \A n \in 1..3 : answers[n].cache_key = answers[2].cache_key
  /\ search_history = <<>>

\* ======================================================================
\* The search functions of the database: search_document_chunks_semantic
\* and search_document_chunks_keyword, called by the handler with the
\* caller's id and the public-only flag.
\* ======================================================================

\* Most documents stored besides the sample data.
MaxDocuments == 2

\* A row of documents.  user_id 0 is null.
DocumentRow(id, userId, isPublic, status) ==
  [id |-> id, user_id |-> userId, is_public |-> isPublic, status |-> status]

\* A row of document_chunks, with what the one query of the model gives on
\* it: the similarity of its embedding in hundredths (embedded FALSE is a
\* null embedding), whether its search_vector matches the query text, and
\* its ts_rank.
ChunkRow(id, documentId, chunkOrder, embedded, similarity, matches, rank) ==
  [id |-> id, document_id |-> documentId, chunk_order |-> chunkOrder,
   embedded |-> embedded, similarity |-> similarity, matches |-> matches, rank |-> rank]

\* The sample data: three public indexed documents of two chunks each,
\* without embeddings, search_vector filled in by the UPDATE.
SampleDocuments == {DocumentRow(id, 0, TRUE, "indexed") : id \in {101, 102, 103}}

SampleChunks ==
  {ChunkRow(10 * id + n, id, n, FALSE, 0, id = 101, n) : id \in {101, 102, 103}, n \in {1, 2}}

\* The chunks stored with document id: one chunk that is close to the
\* query and matches its text, or one chunk that is less close and does not
\* match and one that has no embedding and matches.
ChunkSets == {"one", "two"}

ChunksOf(id, chunkSet) ==
  IF chunkSet = "one"
    THEN {ChunkRow(10 * id + 1, id, 1, TRUE, 80 + id, TRUE, 5 + id)}
    ELSE {ChunkRow(10 * id + 1, id, 1, TRUE, 50 + id, FALSE, 0),
          ChunkRow(10 * id + 2, id, 2, FALSE, 0, TRUE, 3 + id)}

\* The rows of a set in descending order of score.
RECURSIVE OrderByScoreDesc(_)
OrderByScoreDesc(rows) ==
  IF rows = {} THEN <<>>
  ELSE LET first == CHOOSE r \in rows : \A q \in rows : q.score <= r.score
       IN  <<first>> \o OrderByScoreDesc(rows \ {first})

\* LIMIT max_results
LimitRows(rows, maxResults) == SubSeq(rows, 1, Min(Len(rows), maxResults))

\* The security pre-filter of both functions.
PreFilter(d, pUserId, includePublicOnly) ==
  \/ pUserId # 0 /\ d.user_id = pUserId
  \/ d.is_public = TRUE
  \/ ~includePublicOnly

\* The view document_chunk_counts, for one document.
TotalChunkCount(chunks, documentId) ==
  Cardinality({c \in chunks : c.document_id = documentId})

\* The row a search function returns for chunk dc.
SearchRow(dc, score, chunks) ==
  [id |-> dc.id, document_id |-> dc.document_id, chunk_order |-> dc.chunk_order,
   score |-> score, total_chunk_count |-> TotalChunkCount(chunks, dc.document_id)]

search_document_chunks_semantic(docs, chunks, similarityThreshold, maxResults, pUserId, includePublicOnly) ==
  LimitRows(
    OrderByScoreDesc(
      {SearchRow(dc, dc.similarity, chunks) :
         dc \in {c \in chunks :
                   /\ c.embedded
                   /\ c.similarity >= similarityThreshold
                   /\ \E d \in docs :
                        /\ d.id = c.document_id
                        /\ d.status = "indexed"
                        /\ PreFilter(d, pUserId, includePublicOnly)}}),
    maxResults)

search_document_chunks_keyword(docs, chunks, maxResults, pUserId, includePublicOnly) ==
  LimitRows(
    OrderByScoreDesc(
      {SearchRow(dc, dc.rank, chunks) :
         dc \in {c \in chunks :
                   /\ c.matches
                   /\ \E d \in docs :
                        /\ d.id = c.document_id
                        /\ d.status = "indexed"
                        /\ PreFilter(d, pUserId, includePublicOnly)}}),
    maxResults)

\* The migration runs on a database that has the tables.  CREATE TABLE IF
\* NOT EXISTS leaves the documents table as it is: it has the user_id column
\* the functions read, or it has not and every call of them raises an
\* error.  The sample data is inserted.
Migrate ==
  /\ schema = "none"
  /\ schema' \in {"with_user_id", "without_user_id"}
  /\ documentsTable' = SampleDocuments
  /\ documentChunks' = SampleChunks
  /\ UNCHANGED rpcResult
  /\ UNCHANGED <<vars, ivars, lvars>>

\* A document and its chunks are stored.
InsertDocument ==
  /\ schema # "none"
  /\ Cardinality(documentsTable \ SampleDocuments) < MaxDocuments
  /\ LET id == Cardinality(documentsTable \ SampleDocuments) + 1
     IN  \E userId \in (IF schema = "with_user_id" THEN {0, 1, 2} ELSE {0}),
            isPublic \in BOOLEAN, status \in {"indexed", "pending"},
            chunkSet \in ChunkSets :
           /\ documentsTable' = documentsTable \cup {DocumentRow(id, userId, isPublic, status)}
           /\ documentChunks' = documentChunks \cup ChunksOf(id, chunkSet)
  /\ UNCHANGED <<schema, rpcResult>>
  /\ UNCHANGED <<vars, ivars, lvars>>

\* The bodies of the requests that search the database.
SearchBodies ==
  {[DefaultBody EXCEPT !.include_public_only = f, !.limit = l, !.min_similarity = m] :
     f \in BOOLEAN, l \in {Absent, 1}, m \in {Absent, 85}}

\* The parameters the handler passes to the search functions.
RpcParams(a, b) ==
  [similarity_threshold |-> MinSimilarity(b), max_results |-> Limit(b),
   p_user_id |-> UserId(a), include_public_only |-> b.include_public_only]

\* executeTimedSemanticSearch: the rows, or [] and the error.
SemanticRpc ==
  /\ schema # "none"
  /\ \E a \in {"user", "internal"}, b \in SearchBodies :
       LET params == RpcParams(a, b)
       IN  rpcResult' =
             [fn |-> "search_document_chunks_semantic", auth |-> a, params |-> params,
              data |-> IF schema = "without_user_id" THEN <<>>
                       ELSE search_document_chunks_semantic(
                              documentsTable, documentChunks, params.similarity_threshold,
                              params.max_results, params.p_user_id,
                              params.include_public_only),
              error |-> schema = "without_user_id"]
  /\ UNCHANGED <<schema, documentsTable, documentChunks>>
  /\ UNCHANGED <<vars, ivars, lvars>>

\* executeTimedKeywordSearch: the rows, or [] and the error.
KeywordRpc ==
  /\ schema # "none"
  /\ \E a \in {"user", "internal"}, b \in SearchBodies :
       LET params == RpcParams(a, b)
       IN  rpcResult' =
             [fn |-> "search_document_chunks_keyword", auth |-> a,
              params |-> [params EXCEPT !.similarity_threshold = 0],
              data |-> IF schema = "without_user_id" THEN <<>>
                       ELSE search_document_chunks_keyword(
                              documentsTable, documentChunks, params.max_results,
                              params.p_user_id, params.include_public_only),
              error |-> schema = "without_user_id"]
  /\ UNCHANGED <<schema, documentsTable, documentChunks>>
  /\ UNCHANGED <<vars, ivars, lvars>>

SearchNext ==
  \/ Migrate
  \/ InsertDocument
  \/ SemanticRpc
  \/ KeywordRpc

SpecSearch == InsightsInit /\ [][SearchNext]_<<vars, ivars, svars, lvars>>

\* ---- C22: what a caller can see

\* The document a returned row belongs to.
DocumentOf(row) == CHOOSE d \in documentsTable : d.id = row.document_id

\* Document d is public or owned by the caller id passed in.
VisibleTo(d, pUserId) ==
  \/ d.is_public
  \/ pUserId # 0 /\ d.user_id = pUserId

\* C22: every hit returned by the dense and lexical search functions
\* belongs to an indexed document that is public or owned by the caller id
\* passed in; a caller, or an internal caller with caller id null, never
\* receives a hit from another user's private document, and with
\* include_public_only set only hits of public documents are returned.
C22_HitsAreVisibleToCaller ==
  \A n \in 1..Len(rpcResult.data) :
    LET d == DocumentOf(rpcResult.data[n])
    IN  /\ d.status = "indexed"
        /\ VisibleTo(d, rpcResult.params.p_user_id)
        /\ rpcResult.params.include_public_only => d.is_public

\* ---- C23: the source ids of an answer without a resolving citation

\* The documents, in the order of the array, that have a chunk among the
\* chunks of the direct-answer prompt context.
Contributors(docs) ==
  SelectSeq(docs, LAMBDA d :
    \E c \in 1..Len(d.chunks) :
      \E k \in 1..Len(TopChunks(docs)) : TopChunks(docs)[k].id = d.chunks[c].id)

\* C23: if the generated answer contains no citation that resolves to a
\* document, source_document_ids is the list of ids of exactly those input
\* documents that contributed at least one chunk to the direct-answer
\* prompt context, not of documents that contributed none.
C23_UncitedAnswerNamesContributors ==
  /\ directTask.status = "done"
  /\ directTask.reply.kind = "json"
  /\ ~CitationResolves
  => directTask.value.source_document_ids = DocumentIds(Contributors(bodyDocuments))

\* ======================================================================
\* getOpenAIChatCompletion: one fetch under an AbortController whose timer
\* is cleared as soon as the response headers have arrived, then the read
\* of the body.  A request runs its calls side by side and answers when
\* all of them have ended.
\* ======================================================================

\* The seconds the clock of a request runs to.
MaxSeconds == 20

\* setTimeout(() => controller.abort(), 15000)
LlmTimeoutSeconds == 15

\* What the API does with a call: answers with content, answers with JSON
\* without choices[0].message.content, answers with a non-success status,
\* sends the headers of either and never the body, sends nothing, or the
\* connection fails.
Servers ==
  {"content", "invalid", "error_status", "stalled_body", "error_status_stalled_body",
   "silent", "network_error"}

SendsHeaders(server) ==
  server \in {"content", "invalid", "error_status", "stalled_body",
              "error_status_stalled_body"}

SendsBody(server) == server \in {"content", "invalid", "error_status"}

\* What the call returns or throws once the body has been read.
BodyOutcome(server) ==
  CASE server = "content" -> "content"
    [] server = "invalid" -> "Invalid response structure from OpenAI API"
    [] server = "error_status" -> "OpenAI API error"

Running(call) == call.pc \in {"fetching", "reading"}

\* The request starts its calls: without an API key each throws at once,
\* otherwise each arms its timer and sends its fetch.
StartCalls ==
  /\ \A c \in LlmCallIds : completions[c].pc = "idle"
  /\ elapsed + LlmTimeoutSeconds <= MaxSeconds
  /\ \E key \in BOOLEAN, servers \in [LlmCallIds -> Servers] :
       completions' =
         [c \in LlmCallIds |->
            IF key
              THEN [pc |-> "fetching", timeout |-> "armed", started |-> elapsed,
                    server |-> servers[c], outcome |-> "none"]
              ELSE [IdleCall EXCEPT !.pc = "ended",
                                    !.outcome = "OpenAI API key not configured"]]
  /\ UNCHANGED <<elapsed, responded>>
  /\ UNCHANGED <<vars, ivars, svars>>

\* await fetch(...) resolves with the response; clearTimeout(timeout).
HeadersArrive ==
  /\ \E c \in LlmCallIds :
       /\ completions[c].pc = "fetching"
       /\ SendsHeaders(completions[c].server)
       /\ completions' = [completions EXCEPT ![c].pc = "reading", ![c].timeout = "cleared"]
  /\ UNCHANGED <<elapsed, responded>>
  /\ UNCHANGED <<vars, ivars, svars>>

\* await response.text() or await response.json() resolves.
BodyArrives ==
  /\ \E c \in LlmCallIds :
       /\ completions[c].pc = "reading"
       /\ SendsBody(completions[c].server)
       /\ completions' = [completions EXCEPT ![c].pc = "ended",
                            ![c].outcome = BodyOutcome(completions[c].server)]
  /\ UNCHANGED <<elapsed, responded>>
  /\ UNCHANGED <<vars, ivars, svars>>

\* fetch rejects for a reason other than the abort; the catch clears the
\* timer and throws the error on.
FetchFails ==
  /\ \E c \in LlmCallIds :
       /\ completions[c].pc = "fetching"
       /\ completions[c].server = "network_error"
       /\ completions' = [completions EXCEPT ![c].pc = "ended", ![c].timeout = "cleared",
                                            ![c].outcome = "network error"]
  /\ UNCHANGED <<elapsed, responded>>
  /\ UNCHANGED <<vars, ivars, svars>>

\* The timer fires, controller.abort() rejects the pending fetch with an
\* AbortError, the catch throws 'Request timed out'.
TimeoutFires ==
  /\ \E c \in LlmCallIds :
       /\ completions[c].timeout = "armed"
       /\ elapsed >= completions[c].started + LlmTimeoutSeconds
       /\ completions[c].pc = "fetching"
       /\ completions' = [completions EXCEPT ![c].pc = "ended", ![c].timeout = "fired",
                                            ![c].outcome = "Request timed out"]
  /\ UNCHANGED <<elapsed, responded>>
  /\ UNCHANGED <<vars, ivars, svars>>

SecondsPass ==
  /\ elapsed + 5 <= MaxSeconds
  /\ elapsed' = elapsed + 5
  /\ UNCHANGED <<completions, responded>>
  /\ UNCHANGED <<vars, ivars, svars>>

\* await Promise.all(...) over the tasks returns and the response is sent.
Respond ==
  /\ ~responded
  /\ \A c \in LlmCallIds : completions[c].pc = "ended"
  /\ responded' = TRUE
  /\ UNCHANGED <<completions, elapsed>>
  /\ UNCHANGED <<vars, ivars, svars>>

LlmNext ==
  \/ StartCalls
  \/ HeadersArrive
  \/ BodyArrives
  \/ FetchFails
  \/ TimeoutFires
  \/ SecondsPass
  \/ Respond

SpecLlm == InsightsInit /\ [][LlmNext]_<<vars, ivars, svars, lvars>>

\* ---- C27: every LLM call ends

\* Call c can still end: its timer is armed, so the deadline will abort it,
\* or the API has something left to send for it.
CanStillEnd(c) ==
  \/ completions[c].timeout = "armed"
  \/ completions[c].pc = "fetching" /\ SendsHeaders(completions[c].server)
  \/ completions[c].pc = "fetching" /\ completions[c].server = "network_error"
  \/ completions[c].pc = "reading" /\ SendsBody(completions[c].server)

\* C27: every LLM call made by getOpenAIChatCompletion eventually ends: it
\* returns the content, fails on a non-success status, or fails with a
\* timeout once the 15 s deadline has elapsed, also when the response
\* headers have arrived but the body read stalls; hence every insights
\* request eventually sends a response.  Stated on the states: a call that
\* is running is never left without a way to end.
C27_EveryLlmCallEnds ==
  \A c \in LlmCallIds : Running(completions[c]) => CanStillEnd(c)

\* ---- C28: the range of the confidences

\* C28: for any LLM output, including JSON whose confidence fields are out
\* of range or missing, the confidence of the emitted DirectAnswer and the
\* confidence_score of every emitted DocumentSummary lie in [0,1].
C28_ConfidencesInUnitInterval ==
  /\ directTask.status = "done" => directTask.value.confidence \in 0..100
  /\ summariesTask.status = "done" =>
       \A n \in 1..Len(summariesTask.value) :
         summariesTask.value[n].confidence_score \in 0..100


\* ---- C29: a bundle with failure defaults is cached like any other

\* Answer i carries a generated bundle in which a selected kind has its
\* failure default.
Degraded(i) ==
  /\ Fresh(i)
  /\ LET insights == answers[i].insights
     IN  \/ /\ "direct_answer" \in insights.kinds
            /\ insights.direct_answer.answer = ErrorAnswer
            /\ insights.direct_answer.confidence = ErrorConfidence
         \/ /\ "related_questions" \in insights.kinds
            /\ insights.related_questions = <<>>
         \/ /\ "document_summaries" \in insights.kinds
            /\ \E n \in 1..Len(insights.document_summaries) :
                 insights.document_summaries[n].relevance_summary
                   = "Summary unavailable."

\* C29: a cache miss writes the assembled bundle to the cache once, after
\* all selected tasks are over, also when a kind degraded to its failure
\* default; a later request with the same key less than 24 hours later gets
\* that bundle with cached = true and makes no LLM call.  Stated for the
\* runs in which the backend fails no cache or history operation.
C29_DegradedBundleIsCached ==
  ~backendFailed =>
    /\ \A i \in 1..Len(answers) : Fresh(i) => answers[i].cache_writes = 1
    /\ \A i, j \in 1..Len(answers) :
         Degraded(i) /\ WithinTtlOf(i, j) =>
           /\ answers[j].cached
           /\ answers[j].insights = answers[i].insights
           /\ answers[j].llm_calls = 0
           /\ answers[j].cache_writes = 0


\* ---- C30: the documents of the request while the insights are generated

\* C30: generating insights leaves the documents of the request as the
\* caller supplied them, the order of each document's chunks included, so
\* the chunks of the direct_answer prompt context are those of the supplied
\* documents whatever kinds are generated with it.
C30_DocumentsLeftAsSupplied ==
  insightsPc = "tasks" =>
    /\ bodyDocuments = request.body.documents
    /\ directTask.status # "none" =>
         TopChunks(bodyDocuments) = TopChunks(request.body.documents)

====
